---- MODULE Spec2Model ----
(***************************************************************************)
(* A model of the scraper's pagination-and-backoff engine:                 *)
(*   src/src/utils/anti_bot.py        AntiBot, backoff, async_backoff      *)
(*   src/src/utils/pagination.py      PaginationHandler                    *)
(*   src/src/scrapers/static_scraper.py  StaticScraper.scrape_static       *)
(*                                                                         *)
(* backoff_factor is stored multiplied by Scale, so that every power of    *)
(* 1.5 below the cap is an exact integer.  Time is counted in whole time   *)
(* units (seconds): random.uniform is drawn at whole units of its range.   *)
(* The wall clock enters the code only as time.time() - start_time, so the *)
(* model keeps that difference (since_start) instead of the two absolute   *)
(* times; differences over Horizon are not told apart, the code asking     *)
(* only whether the difference is under 60.                                *)
(***************************************************************************)
EXTENDS Integers, Sequences, FiniteSets, TLC

\* ------------------------------------------------------------------ bounds
\* backoff() is not called again once request_count has reached MaxCount
MaxCount == 13
\* get_next_page() is not called again once visited_urls holds MaxVisited URLs
MaxVisited == 3
\* the largest max_products a caller passes to scrape_static
MaxProducts == 5
\* the most links a pagination container holds
MaxLinks == 3
\* the most fields a query string holds
MaxFields == 3
\* the largest max_sessions a SessionManager is constructed with
MaxSessions == 3
\* the most get_session calls made on one SessionManager
MaxPages == 2
MaxFetches == 4
MaxItems == 3
MaxCalls == 4
\* random.uniform(a, b) is drawn at the points lo + (hi - lo) * u / DrawSteps
DrawSteps == 1

\* --------------------------------------------------------------- constants
\* backoff_factor is kept times Scale: 1.5^8 * 256 is an integer
Scale == 256
\* AntiBot.max_backoff = 30.0
max_backoff == 30
\* the rolling window of backoff(): `elapsed < 60`, `60 - elapsed`
WINDOW == 60
\* the tally the window allows: `request_count > 10`
WINDOW_LIMIT == 10
\* clock differences are kept up to Horizon
Horizon == WINDOW + 1

None == "None"

VARIABLES
    since_start, \* time.time() - _anti_bot.start_time, up to Horizon
    anti_bot,    \* the module-level _anti_bot: request_count, backoff_factor
    last,        \* what the last backoff()/async_backoff() call did
    probe,       \* an observer counting the calls of one 60-unit interval
    visited_urls, \* PaginationHandler.visited_urls
    pager_last,  \* the last PaginationHandler.get_next_page call and its result
    crawl,       \* a StaticScraper.scrape_static call: its locals and position
    fetch_log,   \* the session.get calls of the crawl, in order
    call,        \* the last direct call of a helper: arguments and result
    session_manager,   \* a SessionManager: sessions, max_sessions, current_session
    returned_sessions, \* the session numbers get_session returned, in order
    last_get,          \* the last get_session return: session number and draw
    threads,           \* the get_session calls in progress, one per thread
    runs               \* per crawl run: the throttle state its calls left and found

throttle_vars == <<since_start, anti_bot, last, probe>>
pager_vars == <<visited_urls, pager_last>>
crawl_vars == <<crawl, fetch_log>>
helper_vars == <<call>>
session_vars == <<session_manager, returned_sessions, last_get, threads>>
run_vars == <<runs>>

Min(a, b) == IF a <= b THEN a ELSE b
CeilDiv(a, b) == (a + b - 1) \div b
\* a clock difference, kept up to Horizon
Sat(d) == Min(d, Horizon)

\* ---------------------------------------------------------- string literals
\* "next"
s_next == <<"n", "e", "x", "t">>
\* ">"
s_gt == <<">">>
\* "page"
s_page == <<"p", "a", "g", "e">>
\* "p"
s_p == <<"p">>
\* "pagenum"
s_pagenum == <<"p", "a", "g", "e", "n", "u", "m">>
\* "offset"
s_offset == <<"o", "f", "f", "s", "e", "t">>
\* "start"
s_start == <<"s", "t", "a", "r", "t">>
\* "http"
s_http == <<"h", "t", "t", "p">>
\* ".html"
s_html == <<".", "h", "t", "m", "l">>
\* "/page"
s_slash_page == <<"/", "p", "a", "g", "e">>
\* "\u2192", the arrow of the next-link texts
s_arrow == <<"->">>

\* StaticScraper.base_url, "https://books.toscrape.com"
BASE_URL == <<"h", "t", "t", "p", "s", ":", "/", "/", "b", "o", "o", "k",
    "s", ".", "t", "o", "s", "c", "r", "a", "p", "e", ".", "c", "o", "m">>
\* "page-2.html"
h_page2 == <<"p", "a", "g", "e", "-", "2", ".", "h", "t", "m", "l">>
\* "page-3.html"
h_page3 == <<"p", "a", "g", "e", "-", "3", ".", "h", "t", "m", "l">>
\* "?page=1"
h_q1 == <<"?", "p", "a", "g", "e", "=", "1">>
\* "?page=2"
h_q2 == <<"?", "p", "a", "g", "e", "=", "2">>
\* "?page=3"
h_q3 == <<"?", "p", "a", "g", "e", "=", "3">>
\* "?page=3&ref=next"
h_q3next == <<"?", "p", "a", "g", "e", "=", "3", "&", "r", "e", "f", "=",
    "n", "e", "x", "t">>
\* "/api/items?offset=20"
h_more == <<"/", "a", "p", "i", "/", "i", "t", "e", "m", "s", "?", "o",
    "f", "f", "s", "e", "t", "=", "2", "0">>
\* "/catalogue/next.html"
h_next == <<"/", "c", "a", "t", "a", "l", "o", "g", "u", "e", "/", "n",
    "e", "x", "t", ".", "h", "t", "m", "l">>
\* "/catalogue/more.html"
h_more2 == <<"/", "c", "a", "t", "a", "l", "o", "g", "u", "e", "/", "m",
    "o", "r", "e", ".", "h", "t", "m", "l">>
\* "/catalogue/rel.html"
h_rel == <<"/", "c", "a", "t", "a", "l", "o", "g", "u", "e", "/", "r", "e",
    "l", ".", "h", "t", "m", "l">>
\* "Next"
s_Next == <<"N", "e", "x", "t">>
\* "1"
s_1 == <<"1">>
\* "2"
s_2 == <<"2">>
\* "3"
s_3 == <<"3">>
\* "Next page"
s_next_page == <<"N", "e", "x", "t", " ", "p", "a", "g", "e">>
\* "/catalogue/"
s_catalogue == <<"/", "c", "a", "t", "a", "l", "o", "g", "u", "e", "/">>
\* "/list?page=2"
s_list_q2 == <<"/", "l", "i", "s", "t", "?", "p", "a", "g", "e", "=", "2">>
\* ---------------------------------------------------------------- strings
\* A Python str is a sequence of one-character strings; "" is << >>.
Digits == <<"0", "1", "2", "3", "4", "5", "6", "7", "8", "9">>
Lowers == <<"a", "b", "c", "d", "e", "f", "g", "h", "i", "j", "k", "l", "m",
            "n", "o", "p", "q", "r", "s", "t", "u", "v", "w", "x", "y", "z">>
Uppers == <<"A", "B", "C", "D", "E", "F", "G", "H", "I", "J", "K", "L", "M",
            "N", "O", "P", "Q", "R", "S", "T", "U", "V", "W", "X", "Y", "Z">>

IsDigit(c) == \E i \in 1..Len(Digits) : Digits[i] = c
IsAlpha(c) == \E i \in 1..Len(Lowers) : Lowers[i] = c \/ Uppers[i] = c
DigitVal(c) == (CHOOSE i \in 1..Len(Digits) : Digits[i] = c) - 1

\* a non-empty string of the digits 0-9
decimal(s) == s # << >> /\ \A i \in 1..Len(s) : IsDigit(s[i])

\* str.isdigit() ("superscript_2" stands for the one character U+00B2, which
\* is a digit for str.isdigit() and none for int() and for \d)
isdigit(s) ==
    s # << >> /\ \A i \in 1..Len(s) : IsDigit(s[i]) \/ s[i] = "superscript_2"

\* int(s) of a string of digits
RECURSIVE int(_)
int(s) ==
    IF s = << >> THEN 0
    ELSE int(SubSeq(s, 1, Len(s) - 1)) * 10 + DigitVal(s[Len(s)])

\* str(n) of n >= 0
RECURSIVE str(_)
str(n) ==
    IF n < 10 THEN <<Digits[n + 1]>>
    ELSE str(n \div 10) \o <<Digits[(n % 10) + 1]>>

\* str.lower()
LowerChar(c) ==
    IF \E i \in 1..Len(Uppers) : Uppers[i] = c
    THEN Lowers[CHOOSE i \in 1..Len(Uppers) : Uppers[i] = c]
    ELSE c
lower(s) == [i \in 1..Len(s) |-> LowerChar(s[i])]

\* s[i:] and s[:i] with Python's 0-based bounds
From(s, i) == SubSeq(s, i + 1, Len(s))
UpTo(s, i) == SubSeq(s, 1, Min(i, Len(s)))

\* s.startswith(p)
startswith(s, p) == Len(p) <= Len(s) /\ SubSeq(s, 1, Len(p)) = p

\* s.find(p): the 0-based index of the first occurrence of p, or -1
find(s, p) ==
    LET hits == {i \in 0..(Len(s) - Len(p)) : SubSeq(s, i + 1, i + Len(p)) = p}
    IN  IF hits = {} THEN -1 ELSE CHOOSE i \in hits : \A j \in hits : i <= j

\* s.rfind(p)
rfind(s, p) ==
    LET hits == {i \in 0..(Len(s) - Len(p)) : SubSeq(s, i + 1, i + Len(p)) = p}
    IN  IF hits = {} THEN -1 ELSE CHOOSE i \in hits : \A j \in hits : i >= j

\* p in s
contains(s, p) == find(s, p) >= 0

\* s.strip() of blanks
RECURSIVE strip(_)
strip(s) ==
    IF s = << >> THEN s
    ELSE IF s[1] = " " THEN strip(Tail(s))
    ELSE IF s[Len(s)] = " " THEN strip(SubSeq(s, 1, Len(s) - 1))
    ELSE s

\* s.split(sep) for a one-character sep
RECURSIVE split(_, _)
split(s, sep) ==
    LET i == find(s, <<sep>>)
    IN  IF i < 0 THEN <<s>> ELSE <<UpTo(s, i)>> \o split(From(s, i + 1), sep)

\* sep.join(parts)
RECURSIVE join(_, _)
join(parts, sep) ==
    IF parts = << >> THEN << >>
    ELSE IF Len(parts) = 1 THEN parts[1]
    ELSE parts[1] \o <<sep>> \o join(Tail(parts), sep)

\* the earliest of the positions of the characters cs in s, or Len(s)
FirstOf(s, cs) ==
    LET hits == {i \in 0..(Len(s) - 1) : s[i + 1] \in cs}
    IN  IF hits = {} THEN Len(s) ELSE CHOOSE i \in hits : \A j \in hits : i <= j

\* ----------------------------------------------------------- urllib.parse
\* urlparse(url): scheme, netloc, path, query, fragment (no URL of the model
\* has ;params)
urlparse(url) ==
    LET c       == find(url, <<":">>)
        schemed == /\ c > 0
                   /\ IsAlpha(url[1])
                   /\ \A i \in 1..c : IsAlpha(url[i]) \/ IsDigit(url[i])
                                        \/ url[i] \in {"+", "-", "."}
        scheme  == IF schemed THEN lower(UpTo(url, c)) ELSE << >>
        u1      == IF schemed THEN From(url, c + 1) ELSE url
        slashes == startswith(u1, <<"/", "/">>)
        nend    == IF slashes THEN 2 + FirstOf(From(u1, 2), {"/", "?", "#"}) ELSE 0
        netloc  == IF slashes THEN SubSeq(u1, 3, nend) ELSE << >>
        u2      == From(u1, nend)
        h       == find(u2, <<"#">>)
        u3      == IF h >= 0 THEN UpTo(u2, h) ELSE u2
        q       == find(u3, <<"?">>)
    IN  [scheme   |-> scheme,
         netloc   |-> netloc,
         path     |-> IF q >= 0 THEN UpTo(u3, q) ELSE u3,
         query    |-> IF q >= 0 THEN From(u3, q + 1) ELSE << >>,
         fragment |-> IF h >= 0 THEN From(u2, h + 1) ELSE << >>]

\* ParseResult.geturl() / urlunparse, for the schemes http and https
geturl(p) ==
    LET u1 == IF p.netloc # << >> \/ (p.scheme # << >> /\ ~startswith(p.path, <<"/", "/">>))
              THEN <<"/", "/">> \o p.netloc
                   \o (IF p.path # << >> /\ p.path[1] # "/" THEN <<"/">> ELSE << >>)
                   \o p.path
              ELSE p.path
        u2 == IF p.scheme # << >> THEN p.scheme \o <<":">> \o u1 ELSE u1
        u3 == IF p.query # << >> THEN u2 \o <<"?">> \o p.query ELSE u2
    IN  IF p.fragment # << >> THEN u3 \o <<"#">> \o p.fragment ELSE u3

\* the path segments of urljoin with "." and ".." resolved
RECURSIVE resolve_segments(_, _)
resolve_segments(segments, resolved) ==
    IF segments = << >> THEN resolved
    ELSE LET seg == Head(segments)
         IN  IF seg = <<".", ".">>
             THEN resolve_segments(Tail(segments),
                      IF resolved = << >> THEN resolved
                      ELSE SubSeq(resolved, 1, Len(resolved) - 1))
             ELSE IF seg = <<".">>
             THEN resolve_segments(Tail(segments), resolved)
             ELSE resolve_segments(Tail(segments), Append(resolved, seg))

\* segments[1:-1] = filter(None, segments[1:-1])
drop_empty_inner(segments) ==
    IF Len(segments) < 3 THEN segments
    ELSE <<segments[1]>>
         \o SelectSeq(SubSeq(segments, 2, Len(segments) - 1), LAMBDA g : g # << >>)
         \o <<segments[Len(segments)]>>

\* urljoin: base_parts = bpath.split('/'), without its last segment when
\* that is not empty
base_parts(bp) ==
    IF bp[Len(bp)] # << >> THEN SubSeq(bp, 1, Len(bp) - 1) ELSE bp

\* urljoin: the segments of the joined path before "." and ".." are resolved
join_segments(base_path, rel_path) ==
    IF rel_path[1] = "/" THEN split(rel_path, "/")
    ELSE drop_empty_inner(base_parts(split(base_path, "/")) \o split(rel_path, "/"))

\* urljoin: a path that ends in "." or ".." keeps its trailing slash
close_path(segments, resolved) ==
    join(IF segments[Len(segments)] \in {<<".">>, <<".", ".">>}
         THEN Append(resolved, << >>) ELSE resolved, "/")

\* urljoin: '/'.join(resolved_path) or '/'
path_or_root(path) == IF path = << >> THEN <<"/">> ELSE path

resolve_path(segments) ==
    path_or_root(close_path(segments, resolve_segments(segments, << >>)))

\* urljoin once both URLs are parsed and the scheme is chosen
urljoin_parts(b, r, scheme, url) ==
    IF scheme # b.scheme \/ scheme \notin {s_http, s_http \o <<"s">>}
    THEN url
    ELSE IF r.netloc # << >>
    THEN geturl([r EXCEPT !.scheme = scheme])
    ELSE IF r.path = << >>
    THEN geturl([scheme |-> scheme, netloc |-> b.netloc, path |-> b.path,
                 query |-> IF r.query = << >> THEN b.query ELSE r.query,
                 fragment |-> r.fragment])
    ELSE geturl([scheme |-> scheme, netloc |-> b.netloc,
                 path |-> resolve_path(join_segments(b.path, r.path)),
                 query |-> r.query, fragment |-> r.fragment])

urljoin_parsed(b, r, url) ==
    urljoin_parts(b, r, IF r.scheme = << >> THEN b.scheme ELSE r.scheme, url)

\* urljoin(base, url) for http(s) URLs; url may be None (a missing href)
urljoin(base, url) ==
    IF base = << >> THEN url
    ELSE IF url = None \/ url = << >> THEN base
    ELSE urljoin_parsed(urlparse(base), urlparse(url), url)

\* -------------------------------------------------------------------- re
\* The regular expressions of pagination.py all have the shape
\*     prefix  [sep]  (\d+)  suffix
\* with sep a character class that is absent, required or optional.
\* the end of the run of digits of s that starts at the 0-based index i
RECURSIVE digits_end(_, _)
digits_end(s, i) ==
    IF i < Len(s) /\ IsDigit(s[i + 1]) THEN digits_end(s, i + 1) ELSE i

Pattern(prefix, sep, optional, suffix) ==
    [prefix |-> prefix, sep |-> sep, optional |-> optional, suffix |-> suffix]

\* the separator class of pat matches at the 0-based index a of s (a
\* separator is only taken when a digit follows it)
has_sep(s, a, pat) ==
    /\ pat.sep # {} /\ a < Len(s) /\ s[a + 1] \in pat.sep
    /\ digits_end(s, a + 1) > a + 1

\* the match object: prefix in s[i..a), digits in s[d0..d1), then the suffix
match_record(s, i, pat, a, d0, d1) ==
    [ok    |-> /\ a <= Len(s) /\ SubSeq(s, i + 1, a) = pat.prefix
               /\ (d0 > a \/ pat.sep = {} \/ pat.optional)
               /\ d1 > d0
               /\ SubSeq(s, d1 + 1, Min(d1 + Len(pat.suffix), Len(s))) = pat.suffix,
     start |-> i,
     group |-> SubSeq(s, d0 + 1, d1),
     end   |-> d1 + Len(pat.suffix)]

match_digits(s, i, pat, a, d0) == match_record(s, i, pat, a, d0, digits_end(s, d0))

match_sep(s, i, pat, a) ==
    match_digits(s, i, pat, a, IF has_sep(s, a, pat) THEN a + 1 ELSE a)

\* the match of pat that starts at the 0-based index i of s
match_at(s, i, pat) == match_sep(s, i, pat, i + Len(pat.prefix))

\* re.search(pat, s): the leftmost match; ok is FALSE when there is none
NoMatch == [ok |-> FALSE, start |-> 0, group |-> << >>, end |-> 0]
leftmost(pat, s, hits) ==
    IF hits = {} THEN NoMatch
    ELSE match_at(s, CHOOSE i \in hits : \A j \in hits : i <= j, pat)
search(pat, s) ==
    leftmost(pat, s, {i \in 0..(Len(s) - 1) : match_at(s, i, pat).ok})

\* re.sub(pat, repl, s): every match replaced, left to right
RECURSIVE sub(_, _, _)
sub_match(pat, repl, s, m) ==
    IF ~m.ok THEN s
    ELSE UpTo(s, m.start) \o repl \o sub(pat, repl, From(s, m.end))
sub(pat, repl, s) == sub_match(pat, repl, s, search(pat, s))

\* int(s) as Python parses it: blanks stripped, an optional sign, digits
is_int(s) ==
    LET t == strip(s)
    IN  IF t # << >> /\ t[1] \in {"+", "-"} THEN decimal(Tail(t)) ELSE decimal(t)
int_of(s) ==
    LET t == strip(s)
    IN  IF t[1] = "-" THEN 0 - int(Tail(t))
        ELSE IF t[1] = "+" THEN int(Tail(t)) ELSE int(t)
\* str(n) of any integer
str_of(n) == IF n < 0 THEN <<"-">> \o str(0 - n) ELSE str(n)

\* parse_qs(query): the (name, values) items of the dict in insertion order;
\* fields with a blank value are dropped (no query of the model is
\* percent-encoded)
RECURSIVE qs_add(_, _, _)
qs_add(items, k, v) ==
    IF items = << >> THEN <<[k |-> k, v |-> <<v>>]>>
    ELSE IF items[1].k = k
    THEN <<[k |-> k, v |-> Append(items[1].v, v)]>> \o Tail(items)
    ELSE <<items[1]>> \o qs_add(Tail(items), k, v)

RECURSIVE qs_fold(_, _)
qs_fold(fields, items) ==
    IF fields = << >> THEN items
    ELSE LET f  == Head(fields)
             e  == find(f, <<"=">>)
             k  == IF e >= 0 THEN UpTo(f, e) ELSE f
             v  == IF e >= 0 THEN From(f, e + 1) ELSE << >>
         IN  qs_fold(Tail(fields), IF v = << >> THEN items ELSE qs_add(items, k, v))

parse_qs(query) ==
    IF query = << >> THEN << >> ELSE qs_fold(split(query, "&"), << >>)

\* param in query_params, and query_params[param]
qs_has(items, k) == \E i \in 1..Len(items) : items[i].k = k
qs_get(items, k) == items[CHOOSE i \in 1..Len(items) : items[i].k = k].v
\* query_params[param] = [value]
qs_set(items, k, v) ==
    [i \in 1..Len(items) |-> IF items[i].k = k THEN [k |-> k, v |-> <<v>>] ELSE items[i]]

\* ------------------------------------------------------------------- bs4
\* A parsed page is the sequence of its elements in document order; an
\* element has a tag, a set of classes, attributes, its own text, and the
\* index of its parent (0 at the top).
NoAttrs == [x \in {} |-> << >>]
El(tag, class, attrs, text, parent) ==
    [tag |-> tag, class |-> class, attrs |-> attrs, text |-> text, parent |-> parent]

\* a value as a Python condition: None and "" are false
Truthy(v) == v # None /\ v # << >>

\* element.get(name)
get(el, name) == IF name \in DOMAIN el.attrs THEN el.attrs[name] ELSE None

RECURSIVE ancestors(_, _)
ancestors(page, i) ==
    IF page[i].parent = 0 THEN {}
    ELSE {page[i].parent} \cup ancestors(page, page[i].parent)

descendants(page, i) == {j \in 1..Len(page) : i \in ancestors(page, j)}

\* the elements of a set of indices, in document order
RECURSIVE in_order(_)
in_order(S) ==
    IF S = {} THEN << >>
    ELSE LET m == CHOOSE i \in S : \A j \in S : i <= j
         IN  <<m>> \o in_order(S \ {m})

\* A selector is a sequence of compound steps, each joined to the one before
\* it by the descendant (" ") or child (">") combinator.
Step(comb, tag, class, attr, op, val) ==
    [comb |-> comb, tag |-> tag, class |-> class, attr |-> attr, op |-> op, val |-> val]
\* tag.class, .class, tag
Sel(tag, class) == Step(" ", tag, class, "", "", << >>)
\* > tag.class
Child(tag, class) == Step(">", tag, class, "", "", << >>)
\* tag[attr], tag[attr='val'], tag[attr*='val']
SelAttr(tag, attr, op, val) == Step(" ", tag, "", attr, op, val)

matches_step(el, st) ==
    /\ st.tag = "*" \/ el.tag = st.tag
    /\ st.class = "" \/ st.class \in el.class
    /\ \/ st.attr = ""
       \/ /\ st.attr \in DOMAIN el.attrs
          /\ \/ st.op = "has"
             \/ st.op = "eq" /\ el.attrs[st.attr] = st.val
             \/ st.op = "contains" /\ st.val # << >>
                                   /\ contains(el.attrs[st.attr], st.val)

RECURSIVE matches(_, _, _, _)
matches(page, i, sel, k) ==
    /\ matches_step(page[i], sel[k])
    /\ \/ k = 1
       \/ IF sel[k].comb = ">"
          THEN page[i].parent # 0 /\ matches(page, page[i].parent, sel, k - 1)
          ELSE \E j \in ancestors(page, i) : matches(page, j, sel, k - 1)

\* soup.select(selector): the matching elements in document order
select(page, sel) ==
    in_order({i \in 1..Len(page) : matches(page, i, sel, Len(sel))})

\* soup.select_one(selector): the first match, or 0 for None
select_one(page, sel) ==
    LET found == select(page, sel) IN IF found = << >> THEN 0 ELSE found[1]

\* element.select_one(selector): the first match below the element
select_one_in(page, i, sel) ==
    LET found == SelectSeq(select(page, sel), LAMBDA j : j \in descendants(page, i))
    IN  IF found = << >> THEN 0 ELSE found[1]

\* element.find_all('a', href=True)
find_all_a_href(page, i) ==
    in_order({j \in descendants(page, i) :
                 page[j].tag = "a" /\ "href" \in DOMAIN page[j].attrs})

\* element.<tag>: the first descendant with that tag, or 0 for None
first_tag(page, i, tag) ==
    LET found == in_order({j \in descendants(page, i) : page[j].tag = tag})
    IN  IF found = << >> THEN 0 ELSE found[1]

\* element.get_text(strip=True): the stripped strings of the element and of
\* the elements below it, joined
RECURSIVE concat_text(_, _)
concat_text(page, order) ==
    IF order = << >> THEN << >>
    ELSE strip(page[Head(order)].text) \o concat_text(page, Tail(order))
get_text(page, i) == concat_text(page, in_order({i} \cup descendants(page, i)))

\* ------------------------------------------------------------- the pages
Attr(name, val) == name :> val
Link(href, text, parent) == El("a", {}, Attr("href", href), text, parent)

\* <ul class="pager"><li class="current"/><li class="next">
\*   <a href="page-2.html">next</a></li></ul>
PageNextButton ==
    << El("ul", {"pager"}, NoAttrs, << >>, 0),
       El("li", {"current"}, NoAttrs, << >>, 1),
       El("li", {"next"}, NoAttrs, << >>, 1),
       Link(h_page2, s_next, 3) >>

\* <div class="pagination"><a href="?page=1">1</a><a href="?page=2">2</a>
\*   <a href="?page=3">3</a><a href="?page=3&ref=next"> Next </a></div>
PageNumbered ==
    << El("div", {"pagination"}, NoAttrs, << >>, 0),
       Link(h_q1, s_1, 1), Link(h_q2, s_2, 1), Link(h_q3, s_3, 1),
       Link(h_q3next, <<" ">> \o s_Next \o <<" ">>, 1) >>

\* <div class="products"><button class="load-more"
\*   data-next-url="/api/items?offset=20"/></div>
PageLoadMore ==
    << El("div", {"products"}, NoAttrs, << >>, 0),
       El("button", {"load-more"}, Attr("data-next-url", h_more), << >>, 1) >>

\* <div class="pagination"><a href="?page=3">3</a>
\*   <a class="next" href="/catalogue/next.html">Next page</a></div>
\* <a class="show-more" data-url="/catalogue/more.html"/>
PageAll ==
    << El("div", {"pagination"}, NoAttrs, << >>, 0),
       Link(h_q3, s_3, 1),
       El("a", {"next"}, Attr("href", h_next), s_next_page, 1),
       El("a", {"show-more"}, Attr("data-url", h_more2), << >>, 0) >>

\* <div>No pagination</div>
PageNone == << El("div", {}, NoAttrs, << >>, 0) >>

\* <li class="next"><a href="">next</a></li>
\* <link rel="next" href="/catalogue/rel.html"/>
PageEmptyHref ==
    << El("li", {"next"}, NoAttrs, << >>, 0),
       Link(<< >>, s_next, 1),
       El("link", {}, Attr("rel", s_next) @@ Attr("href", h_rel), << >>, 0) >>

\* the pages and the current URLs get_next_page is called with
PagerPages ==
    <<PageNextButton, PageNumbered, PageLoadMore, PageAll, PageNone, PageEmptyHref>>
PagerUrls ==
    { BASE_URL \o s_catalogue \o <<"p", "a", "g", "e", "-", "1">> \o s_html,
      BASE_URL \o s_list_q2,
      BASE_URL \o <<"/">> }

\* ---------------------------------------------------------- pagination.py
\* the selectors of _find_next_button, in list order
NEXT_BUTTON_SELECTORS ==
    << <<Sel("li", "next"), Sel("a", "")>>,              \* li.next a
       <<Sel("*", "next"), Sel("a", "")>>,               \* .next a
       <<Sel("a", "next")>>,                             \* a.next
       <<Sel("*", "pagination"), Sel("*", "next")>>,     \* .pagination .next
       <<Sel("*", "pager-next"), Sel("a", "")>>,         \* .pager-next a
       <<Sel("*", "next-page")>>,                        \* .next-page
       <<SelAttr("*", "rel", "eq", s_next)>>,            \* [rel='next']
       <<SelAttr("a", "aria-label", "contains", s_next)>>, \* a[aria-label*='next']
       <<SelAttr("a", "title", "contains", s_next)>>,    \* a[title*='next']
       <<Sel("*", "pagination-next"), Sel("a", "")>> >>  \* .pagination-next a

\* the containers of _find_numbered_next, in list order
PAGINATION_SELECTORS ==
    << <<Sel("*", "pagination")>>, <<Sel("*", "pager")>>,
       <<Sel("*", "page-numbers")>>, <<Sel("*", "paginate")>>,
       <<Sel("*", "page-nav")>>, <<Sel("*", "pagination-wrapper")>> >>

\* the selectors and attributes of _find_load_more, in list order
LOAD_MORE_SELECTORS ==
    << <<Sel("*", "load-more")>>, <<Sel("*", "show-more")>>,
       <<Sel("*", "view-more")>>, <<SelAttr("*", "data-next-url", "has", << >>)>>,
       <<SelAttr("*", "data-load-more", "has", << >>)>>,
       <<Sel("*", "infinite-scroll")>> >>
LOAD_MORE_ATTRS == <<"data-next-url", "data-load-more", "data-url", "href">>

\* the least index of 1..n at which P holds, or 0
First(n, P(_)) ==
    LET hits == {i \in 1..n : P(i)}
    IN  IF hits = {} THEN 0 ELSE CHOOSE i \in hits : \A j \in hits : i <= j

\* _find_next_button(soup): the href of the first selector whose first
\* element has a non-empty href, or None
find_next_button(page) ==
    LET href(k) == LET e == select_one(page, NEXT_BUTTON_SELECTORS[k])
                   IN  IF e = 0 THEN None ELSE get(page[e], "href")
        k == First(Len(NEXT_BUTTON_SELECTORS), LAMBDA i : Truthy(href(i)))
    IN  IF k = 0 THEN None ELSE href(k)

\* _extract_page_number(url): None, or the number in a 1-tuple (so that it
\* can be told from None)
PAGE_NUMBER_PATTERN == Pattern(s_slash_page, {"-", "_", "/"}, TRUE, << >>)
PAGE_NUMBER_PARAMS == <<s_page, s_p, s_pagenum>>
\* the first parameter of params that the query has with an integer value
\* (its index, 0 when there is none)
int_param(query_params, params) ==
    First(Len(params),
          LAMBDA i : /\ qs_has(query_params, params[i])
                     /\ is_int(qs_get(query_params, params[i])[1]))

page_number_of(path_match, query_params, k) ==
    IF path_match.ok THEN <<int(path_match.group)>>
    ELSE IF k = 0 THEN None
    ELSE <<int_of(qs_get(query_params, PAGE_NUMBER_PARAMS[k])[1])>>

page_number_in(path_match, query_params) ==
    page_number_of(path_match, query_params,
                   int_param(query_params, PAGE_NUMBER_PARAMS))

\* _extract_page_number(url): None, or the number in a 1-tuple
extract_page_number(url) ==
    page_number_in(search(PAGE_NUMBER_PATTERN, url), parse_qs(urlparse(url).query))

\* the links _find_numbered_next looks at, in the order it looks at them
RECURSIVE pagination_links(_, _)
pagination_links(page, k) ==
    IF k > Len(PAGINATION_SELECTORS) THEN << >>
    ELSE LET pagination == select_one(page, PAGINATION_SELECTORS[k])
         IN  (IF pagination = 0 THEN << >> ELSE find_all_a_href(page, pagination))
             \o pagination_links(page, k + 1)

\* the test of lines 82-87: the link is returned
NEXT_WORDS == {s_next, s_gt, s_arrow}
link_taken(page, link, current_page) ==
    LET link_text == get_text(page, link)
    IN  IF isdigit(link_text)
        THEN /\ decimal(link_text)
             /\ current_page # None /\ current_page[1] # 0
             /\ int(link_text) = current_page[1] + 1
        ELSE lower(link_text) \in NEXT_WORDS

\* line 83 raises ValueError: isdigit() holds of the text and int() does not
\* parse it; the except clause of line 88 ends the method with None
link_raises(page, link) ==
    isdigit(get_text(page, link)) /\ ~decimal(get_text(page, link))

\* the href of the first link taken, unless a link before it raises
first_taken(page, links, current_page) ==
    LET k == First(Len(links), LAMBDA i : \/ link_taken(page, links[i], current_page)
                                          \/ link_raises(page, links[i]))
    IN  IF k = 0 \/ link_raises(page, links[k])
        THEN None
        ELSE page[links[k]].attrs["href"]

\* _find_numbered_next(soup, current_url)
find_numbered_next(page, current_url) ==
    first_taken(page, pagination_links(page, 1), extract_page_number(current_url))

\* _find_load_more(soup)
find_load_more(page) ==
    LET url(k, a) == LET e == select_one(page, LOAD_MORE_SELECTORS[k])
                     IN  IF e = 0 THEN None ELSE get(page[e], LOAD_MORE_ATTRS[a])
        attr(k) == First(Len(LOAD_MORE_ATTRS), LAMBDA a : Truthy(url(k, a)))
        k == First(Len(LOAD_MORE_SELECTORS), LAMBDA i : attr(i) # 0)
    IN  IF k = 0 THEN None ELSE url(k, attr(k))

\* the path patterns of _construct_next_page_url with their replacements
\* (the text before and after the number), in list order
PATH_PATTERNS ==
    << [pattern |-> Pattern(s_slash_page, {"-", "_", "/"}, FALSE, << >>),
        before |-> s_slash_page \o <<"-">>, after |-> << >>],
       [pattern |-> Pattern(s_slash_page, {"-", "_", "/"}, FALSE, <<"/">>),
        before |-> s_slash_page \o <<"-">>, after |-> <<"/">>],
       [pattern |-> Pattern(s_page, {"-", "_"}, FALSE, s_html),
        before |-> s_page \o <<"-">>, after |-> s_html],
       [pattern |-> Pattern(s_p, {}, FALSE, s_html),
        before |-> s_p, after |-> s_html] >>
QUERY_PARAMS == <<s_page, s_p, s_pagenum, s_offset, s_start>>

\* '&'.join(f"{k}={v[0]}" for k, v in query_params.items())
RECURSIVE join_query(_)
join_query(items) ==
    IF items = << >> THEN << >>
    ELSE items[1].k \o <<"=">> \o items[1].v[1]
         \o (IF Len(items) = 1 THEN << >> ELSE <<"&">> \o join_query(Tail(items)))

\* lines 123-126: the path with the page number replaced by the next one
next_path_url(parsed, pp) ==
    geturl([parsed EXCEPT !.path =
        sub(pp.pattern,
            pp.before \o str(int(search(pp.pattern, parsed.path).group) + 1) \o pp.after,
            parsed.path)])

\* lines 134-138: the query with the page parameter replaced by the next one
next_query_url(parsed, query_params, param) ==
    geturl([parsed EXCEPT !.query =
        join_query(qs_set(query_params, param,
                          str_of(int_of(qs_get(query_params, param)[1]) + 1)))])

construct_pick(parsed, query_params, p, q) ==
    IF p # 0 THEN next_path_url(parsed, PATH_PATTERNS[p])
    ELSE IF q # 0 THEN next_query_url(parsed, query_params, QUERY_PARAMS[q])
    ELSE None

construct_with(parsed, query_params) ==
    construct_pick(parsed, query_params,
        First(Len(PATH_PATTERNS),
              LAMBDA i : search(PATH_PATTERNS[i].pattern, parsed.path).ok),
        int_param(query_params, QUERY_PARAMS))

construct_from(parsed) == construct_with(parsed, parse_qs(parsed.query))

\* _construct_next_page_url(current_url)
construct_next_page_url(current_url) == construct_from(urlparse(current_url))

\* `full_url not in self.visited_urls`, lines 18, 25, 32 and 39
not_visited_ignored(visited, full_url) == TRUE
not_visited(visited, full_url) == full_url \notin visited

\* one strategy's block of get_next_page: the URL it returns, or None
fresh(visited, full_url) == IF not_visited(visited, full_url) THEN full_url ELSE None
try_candidate(visited, current_url, next_url) ==
    IF Truthy(next_url) THEN fresh(visited, urljoin(current_url, next_url)) ELSE None

strategies_construct_first(visited, page, current_url) ==
    << try_candidate(visited, current_url, construct_next_page_url(current_url)),
       try_candidate(visited, current_url, find_next_button(page)),
       try_candidate(visited, current_url, find_numbered_next(page, current_url)),
       try_candidate(visited, current_url, find_load_more(page)) >>
\* the four blocks of get_next_page in the order the method runs them
strategies(visited, page, current_url) ==
    << try_candidate(visited, current_url, find_next_button(page)),
       try_candidate(visited, current_url, find_numbered_next(page, current_url)),
       try_candidate(visited, current_url, find_load_more(page)),
       try_candidate(visited, current_url, construct_next_page_url(current_url)) >>

\* (mutant) the set is begun anew with the URL returned
first_return_replacing(visited, found, k) ==
    IF k = 0 THEN [url |-> None, visited_urls |-> visited]
    ELSE [url |-> found[k], visited_urls |-> {found[k]}]

\* the first block that returns, else `return None`
first_return(visited, found, k) ==
    IF k = 0 THEN [url |-> None, visited_urls |-> visited]
    ELSE [url |-> found[k], visited_urls |-> visited \cup {found[k]}]

returned(visited, found) ==
    first_return(visited, found, First(Len(found), LAMBDA i : found[i] # None))

\* PaginationHandler.get_next_page(soup, current_url): the URL returned (or
\* None) and visited_urls after the call
get_next_page(visited, page, current_url) ==
    returned(visited, strategies(visited, page, current_url))

\* PaginationHandler.__init__
NoPagerCall ==
    [page |-> 0, current_url |-> << >>, url |-> None, before |-> {}, returned |-> {}]
PagerInit ==
    /\ visited_urls = {}
    /\ pager_last = NoPagerCall

\* handler.get_next_page(PagerPages[pg], current_url)
\* (pager_last records the call: its arguments, its result, visited_urls
\* before it and the URLs the earlier calls returned)
GetNextPage(pg, current_url) ==
    LET r == get_next_page(visited_urls, PagerPages[pg], current_url)
    IN  /\ Cardinality(r.visited_urls) <= MaxVisited
        /\ visited_urls' = r.visited_urls
        /\ pager_last' = [page |-> pg, current_url |-> current_url,
                          url |-> r.url, before |-> visited_urls,
                          returned |-> IF pager_last.url = None
                                       THEN pager_last.returned
                                       ELSE pager_last.returned \cup {pager_last.url}]

\* detect_captcha(response_text): some indicator occurs in the lower-cased
\* text
CAPTCHA_INDICATORS ==
    { <<"c", "a", "p", "t", "c", "h", "a">>,
      <<"r", "e", "c", "a", "p", "t", "c", "h", "a">>,
      <<"h", "c", "a", "p", "t", "c", "h", "a">>,
      <<"c", "l", "o", "u", "d", "f", "l", "a", "r", "e">>,
      <<"p", "l", "e", "a", "s", "e", " ", "v", "e", "r", "i", "f", "y">>,
      <<"s", "e", "c", "u", "r", "i", "t", "y", " ", "c", "h", "e", "c", "k">>,
      <<"r", "o", "b", "o", "t", " ", "v", "e", "r", "i", "f", "i", "c", "a", "t", "i", "o", "n">>,
      <<"p", "r", "o", "v", "e", " ", "y", "o", "u", "'", "r", "e", " ", "h", "u", "m", "a", "n">> }
detect_captcha(response_text) ==
    \E indicator \in CAPTCHA_INDICATORS : contains(lower(response_text), indicator)

\* get_headers(): USER_AGENTS, ACCEPT_LANGUAGES and the platforms of the
\* client hints, by their place in the lists
USER_AGENTS == <<"Chrome/120 Windows", "Chrome/119 Windows", "Chrome/120 Mac",
    "Chrome/119 Mac", "Firefox/120 Windows", "Firefox/119 Windows",
    "Firefox/120 Mac", "Safari/17.1 Mac", "Chrome/120 Linux", "Edg/120 Windows">>
ACCEPT_LANGUAGES == <<"en-US,en;q=0.9", "en-US,en;q=0.8,es;q=0.7",
    "en-GB,en;q=0.9,en-US;q=0.8", "en-US,en;q=0.9,fr;q=0.8">>
PLATFORMS == <<"\"Windows\"", "\"macOS\"", "\"Linux\"">>

\* the outcomes of the random draws of one get_headers() call: the two
\* choices, whether random.random() < 0.3, and the platform chosen if so
HeaderDraw(ua, lang, extra, platform) ==
    [ua |-> ua, lang |-> lang, extra |-> extra, platform |-> platform]
HeaderDraws ==
    { HeaderDraw(1, 1, FALSE, 1), HeaderDraw(8, 3, TRUE, 1),
      HeaderDraw(1, 1, TRUE, 3) }

\* dict.update(other): the keys of other take its values, the rest stay
update(headers, other) == other @@ headers

\* get_headers() with those draws
CLIENT_HINTS(platform) ==
    ("Sec-CH-UA" :> "\"Not_A Brand\";v=\"8\", \"Chromium\";v=\"120\"")
    @@ ("Sec-CH-UA-Mobile" :> "?0")
    @@ ("Sec-CH-UA-Platform" :> PLATFORMS[platform])
get_headers(draw) ==
    LET headers ==
            ("User-Agent" :> USER_AGENTS[draw.ua])
            @@ ("Accept" :> "text/html,application/xhtml+xml,application/xml;q=0.9,image/webp,image/apng,*/*;q=0.8")
            @@ ("Accept-Language" :> ACCEPT_LANGUAGES[draw.lang])
            @@ ("Accept-Encoding" :> "gzip, deflate, br")
            @@ ("DNT" :> "1")
            @@ ("Connection" :> "keep-alive")
            @@ ("Upgrade-Insecure-Requests" :> "1")
            @@ ("Sec-Fetch-Dest" :> "document")
            @@ ("Sec-Fetch-Mode" :> "navigate")
            @@ ("Sec-Fetch-Site" :> "none")
            @@ ("Sec-Fetch-User" :> "?1")
            @@ ("Cache-Control" :> "max-age=0")
    IN  IF draw.extra THEN update(headers, CLIENT_HINTS(draw.platform)) ELSE headers

\* requests.Session(): the headers a new session starts with
DEFAULT_HEADERS ==
    ("User-Agent" :> "python-requests")
    @@ ("Accept-Encoding" :> "gzip, deflate")
    @@ ("Accept" :> "*/*")
    @@ ("Connection" :> "keep-alive")

\* SessionManager.__init__ and _initialize_sessions: max_sessions sessions,
\* each with the headers of its own get_headers() draw
SessionManager(max_sessions, draws) ==
    [sessions |-> [i \in 1..max_sessions |-> update(DEFAULT_HEADERS, get_headers(draws[i]))],
     max_sessions |-> max_sessions,
     current_session |-> 0]

\* line 185: the index after the one returned
rotate_unwrapped(sm) == sm.current_session + 1
rotate(sm) == (sm.current_session + 1) % sm.max_sessions

\* line 187 on the session with number i (sessions[i] of the code)
refresh(sm, i, draw) ==
    [sm EXCEPT !.sessions[i + 1] = update(@, get_headers(draw))]

\* get_session() run without interruption: the manager after it and the
\* number of the session returned
get_session(sm, draw) ==
    [sm |-> refresh([sm EXCEPT !.current_session = rotate(sm)],
                    sm.current_session, draw),
     session |-> sm.current_session]

\* no SessionManager is constructed, no call is running
NoManager == [sessions |-> << >>, max_sessions |-> 0, current_session |-> 0]
NoGet == [session |-> 0, draw |-> HeaderDraw(0, 0, FALSE, 0)]
Idle == [pc |-> "idle", session |-> 0, next |-> 0]
Threads == {1, 2}
SessionInit ==
    /\ session_manager = NoManager
    /\ returned_sessions = << >>
    /\ last_get = NoGet
    /\ threads = [t \in Threads |-> Idle]

\* SessionManager(max_sessions)
NewSessionManager(max_sessions, draws) ==
    /\ session_manager = NoManager
    /\ session_manager' = SessionManager(max_sessions, draws)
    /\ UNCHANGED <<returned_sessions, last_get, threads>>

\* manager.get_session() by a single caller
GetSession(draw) ==
    /\ session_manager # NoManager
    /\ Len(returned_sessions) < MaxCalls
    /\ session_manager' = get_session(session_manager, draw).sm
    /\ returned_sessions' =
           Append(returned_sessions, get_session(session_manager, draw).session)
    /\ last_get' = [session |-> get_session(session_manager, draw).session,
                    draw |-> draw]
    /\ UNCHANGED threads

\* get_session() called by two threads on the shared _session_manager; no
\* lock is taken, so a thread may be interrupted between any two of its
\* reads and writes of the manager.
\* line 184: session = self.sessions[self.current_session]
Pick(t) ==
    /\ session_manager # NoManager
    /\ threads[t].pc = "idle"
    /\ threads' = [threads EXCEPT ![t] = [pc |-> "picked",
                                          session |-> session_manager.current_session,
                                          next |-> 0]]
    /\ UNCHANGED <<session_manager, returned_sessions, last_get>>

\* line 185, the right-hand side: (self.current_session + 1) % self.max_sessions
Load(t) ==
    /\ threads[t].pc = "picked"
    /\ threads' = [threads EXCEPT ![t].pc = "loaded",
                                  ![t].next = rotate(session_manager)]
    /\ UNCHANGED <<session_manager, returned_sessions, last_get>>

\* line 185, the assignment to self.current_session
Store(t) ==
    /\ threads[t].pc = "loaded"
    /\ session_manager' =
           [session_manager EXCEPT !.current_session = threads[t].next]
    /\ threads' = [threads EXCEPT ![t].pc = "stored"]
    /\ UNCHANGED <<returned_sessions, last_get>>

\* lines 187-188: the headers are refreshed and the session is returned
Refresh(t, draw) ==
    /\ threads[t].pc = "stored"
    /\ session_manager' = refresh(session_manager, threads[t].session, draw)
    /\ returned_sessions' = Append(returned_sessions, threads[t].session)
    /\ last_get' = [session |-> threads[t].session, draw |-> draw]
    /\ threads' = [threads EXCEPT ![t].pc = "done"]

\* ------------------------------------------------------ static_scraper.py
\* Config.MAX_PRODUCTS
MAX_PRODUCTS == 50

\* <article class="product_pod"><h3><a title=... href=...></a></h3>
\*   <p class="price_color">...</p></article>, its first element at index at
ProductPod(at, title, href, price) ==
    << El("article", {"product_pod"}, NoAttrs, << >>, 0),
       El("h3", {}, NoAttrs, << >>, at),
       El("a", {}, Attr("title", title) @@ Attr("href", href), << >>, at + 1),
       El("p", {"price_color"}, NoAttrs, price, at) >>

\* <ul class="pager"><li class="next"><a href=...>next</a></li></ul>
Pager(at, href) ==
    << El("ul", {"pager"}, NoAttrs, << >>, 0),
       El("li", {"next"}, NoAttrs, << >>, at),
       Link(href, s_next, at + 1) >>

\* a listing page with the three books k1, k2, k3
Listing(k) ==
    ProductPod(1, <<"B", k, "1">>, <<"b", k, "1">> \o s_html, <<" ", "$", k, "1", " ">>)
    \o ProductPod(5, <<"B", k, "2">>, <<"b", k, "2">> \o s_html, <<"$", k, "2">>)
    \o ProductPod(9, <<"B", k, "3">>, <<"b", k, "3">> \o s_html, <<"$", k, "3">>)

\* the site: three listing pages of three books each, linked in a chain
Url1 == BASE_URL
\* Config.TARGET_URLS[0], the same page
TARGET_URL == BASE_URL \o <<"/">>
Url2 == BASE_URL \o s_catalogue \o h_page2
Url3 == BASE_URL \o s_catalogue \o h_page3
\* a bot challenge that still carries a book and a next-page link:
\* <h1>Security Check</h1> <article .../> <ul class="pager">...</ul>
UrlChallenge == BASE_URL \o s_catalogue \o <<"c">> \o s_html
PageChallenge ==
    << El("h1", {}, NoAttrs, <<"S", "e", "c", "u", "r", "i", "t", "y", " ", "C", "h", "e", "c", "k">>, 0) >>
    \o ProductPod(2, <<"B", "c">>, <<"b", "c">> \o s_html, <<"$", "c">>)
    \o Pager(6, h_page3)
\* a listing whose second product element has no title link:
\* <article .../> <article class="product_pod"><p class="price_color"/>
\* </article> <article .../> <ul class="pager">...</ul>
UrlBroken == BASE_URL \o s_catalogue \o <<"x">> \o s_html
PageBroken ==
    ProductPod(1, <<"B", "x", "1">>, <<"b", "x", "1">> \o s_html, <<"$", "x", "1">>)
    \o << El("article", {"product_pod"}, NoAttrs, << >>, 0),
          El("p", {"price_color"}, NoAttrs, <<"$", "x", "2">>, 5) >>
    \o ProductPod(7, <<"B", "x", "3">>, <<"b", "x", "3">> \o s_html, <<"$", "x", "3">>)
    \o Pager(11, h_page3)
\* a page without books that links on to the third page:
\* <div>No results</div> <ul class="pager">...</ul>
UrlNoBooks == BASE_URL \o s_catalogue \o <<"e">> \o s_html
PageNoBooks ==
    << El("div", {}, NoAttrs, <<"N", "o", " ", "r", "e", "s", "u", "l", "t", "s">>, 0) >>
    \o Pager(2, h_page3)
\* a page with one book whose next link has an empty href:
\* <article .../> <ul class="pager"><li class="next"><a href="">next</a>
UrlEmptyHref == BASE_URL \o s_catalogue \o <<"h">> \o s_html
PageOneBookEmptyHref ==
    ProductPod(1, <<"B", "h">>, <<"b", "h">> \o s_html, <<"$", "h">>)
    \o Pager(5, << >>)
\* a page with one book whose next link leads to the page itself
UrlCycle == BASE_URL \o s_catalogue \o <<"k">> \o s_html
PageCycle ==
    ProductPod(1, <<"B", "k">>, <<"b", "k">> \o s_html, <<"$", "k">>)
    \o Pager(5, <<"k">> \o s_html)
Site ==
    (Url1 :> Listing("1") \o Pager(13, Tail(s_catalogue) \o h_page2))
    @@ (TARGET_URL :> Listing("1") \o Pager(13, Tail(s_catalogue) \o h_page2))
    @@ (Url2 :> Listing("2") \o Pager(13, h_page3))
    @@ (Url3 :> Listing("3"))
    @@ (UrlChallenge :> PageChallenge)
    @@ (UrlBroken :> PageBroken)
    @@ (UrlNoBooks :> PageNoBooks)
    @@ (UrlEmptyHref :> PageOneBookEmptyHref)
    @@ (UrlCycle :> PageCycle)

\* the url argument of scrape_static ("" stands for no URL given)
StartUrls ==
    {<< >>, TARGET_URL, Url2, UrlChallenge, UrlBroken, UrlNoBooks, UrlEmptyHref,
     UrlCycle}
\* the values of Config.MAX_PRODUCTS run.py is run with
ConfiguredMax == {1, MAX_PRODUCTS}
\* what session.get meets: 0 is a transport error, the others the status
Statuses == {0, 200, 429, 500}

\* resp.text as far as the detectors read it: the text of the page's elements
\* in document order
RECURSIVE body_of(_, _)
body_of(page, i) ==
    IF i > Len(page) THEN << >>
    ELSE page[i].text \o <<" ">> \o body_of(page, i + 1)
body(page) == body_of(page, 1)

\* resp.raise_for_status() raises
raise_for_status(status) == status >= 400 /\ status < 600

\* the condition of lines 47 and 62
limit_reached(products, max_products) ==
    max_products # 0 /\ Len(products) >= max_products

\* element.get(name, default)
get_or(el, name, default) ==
    IF name \in DOMAIN el.attrs THEN el.attrs[name] ELSE default

\* element.text: the strings of the element and of the elements below it
RECURSIVE text_of(_, _)
text_of(page, order) ==
    IF order = << >> THEN << >>
    ELSE page[Head(order)].text \o text_of(page, Tail(order))
text(page, i) == text_of(page, in_order({i} \cup descendants(page, i)))

\* item.h3.a, or 0 when item.h3 or item.h3.a is None (the attribute access
\* or the .get on it then raises AttributeError)
h3_of(page, h3) == IF h3 = 0 THEN 0 ELSE first_tag(page, h3, "a")
title_link(page, item) == h3_of(page, first_tag(page, item, "h3"))

\* lines 51-52
price_of(page, price_el) ==
    IF price_el = 0 THEN << >> ELSE strip(text(page, price_el))

\* lines 53-55
absolute(current_url, link) ==
    IF startswith(link, s_http) THEN link ELSE urljoin(current_url, link)

\* lines 50-57: the record of one item whose title link is the element a
product(page, item, a, current_url) ==
    [name  |-> strip(get_or(page[a], "title", << >>)),
     price |-> price_of(page, select_one_in(page, item, <<Sel("p", "price_color")>>)),
     link  |-> absolute(current_url, get_or(page[a], "href", << >>))]

\* the loop of lines 46-58 over the items left: the products after it, and
\* whether an item raised
RECURSIVE extract_items(_, _, _, _, _)
extract_item(page, items, products, max_products, current_url, a) ==
    IF a = 0 THEN [raised |-> TRUE, products |-> products]
    ELSE extract_items(page, Tail(items),
                       Append(products, product(page, Head(items), a, current_url)),
                       max_products, current_url)
extract_items(page, items, products, max_products, current_url) ==
    IF items = << >> \/ limit_reached(products, max_products)
    THEN [raised |-> FALSE, products |-> products]
    ELSE extract_item(page, items, products, max_products, current_url,
                      title_link(page, Head(items)))

\* soup.select("article.product_pod") and soup.select_one("li.next > a")
PRODUCT_POD == <<Sel("article", "product_pod")>>
NEXT_LINK == <<Sel("li", "next"), Child("a", "")>>

\* lines 65-70: the next current_url
next_url_of(page, current_url, next_button) ==
    IF next_button = 0 THEN None
    ELSE urljoin(current_url, get(page[next_button], "href"))

\* (mutant) line 72 is left out
advance_without_sleep(c, next_url) ==
    [c EXCEPT !.current_url = next_url,
              !.pc = IF Truthy(next_url) THEN "loop" ELSE "done"]

\* lines 65-72 and the loop condition of line 34
advance(c, next_url) ==
    [c EXCEPT !.current_url = next_url,
              !.slept = @ + 1,
              !.pc = IF Truthy(next_url) THEN "loop" ELSE "done"]

\* lines 62-72 once the items of the page are extracted
after_items(c, page, r) ==
    IF r.raised THEN [c EXCEPT !.pc = "raised"]
    ELSE IF limit_reached(r.products, c.max_products)
    THEN [c EXCEPT !.products = r.products, !.pc = "done"]
    ELSE advance([c EXCEPT !.products = r.products],
                 next_url_of(page, c.current_url, select_one(page, NEXT_LINK)))

\* (mutant) a page without items ends the loop
scrape_page_stopping(c, page) ==
    IF select(page, PRODUCT_POD) = << >> THEN [c EXCEPT !.pc = "done"]
    ELSE after_items(c, page,
             extract_items(page, select(page, PRODUCT_POD), c.products,
                           c.max_products, c.current_url))

\* lines 43-72: one iteration of the loop on a fetched page
scrape_page(c, page) ==
    after_items(c, page,
        extract_items(page, select(page, PRODUCT_POD), c.products,
                      c.max_products, c.current_url))

\* lines 36-41: the request failed, the loop ends
request_failed(c) == [c EXCEPT !.pc = "done"]

\* the module-level get_next_page(soup, base_url) of pagination.py
BOOKS_NEXT_LINK == <<Sel("li", "next"), Sel("a", "")>>
next_of(page, base_url, next_button) ==
    IF next_button # 0 /\ Truthy(get(page[next_button], "href"))
    THEN urljoin(base_url, get(page[next_button], "href"))
    ELSE None
get_next_page_books(page, base_url) ==
    next_of(page, base_url, select_one(page, BOOKS_NEXT_LINK))

\* StaticScraper.__init__: no crawl is running
CrawlInit ==
    /\ crawl = [pc |-> "idle", current_url |-> None, products |-> << >>,
                max_products |-> 0, slept |-> 0]
    /\ fetch_log = << >>

\* scrape_static(url, max_products), lines 31-34
ScrapeStatic(url, max_products) ==
    /\ crawl.pc = "idle"
    /\ crawl' = [pc |-> "loop",
                 current_url |-> IF Truthy(url) THEN url ELSE BASE_URL,
                 products |-> << >>, max_products |-> max_products, slept |-> 0]
    /\ UNCHANGED fetch_log

\* run.py in mode "both": scrape_static(target_url, config.MAX_PRODUCTS // 2)
RunBoth(n) == ScrapeStatic(TARGET_URL, n \div 2)

\* one iteration of the while loop of scrape_static: session.get meets a
\* transport error (status 0) or a response with that status (fetch_log
\* records the URL, the status, len(products) at the time of the call and
\* the number of items on the page received)
Fetch(status) ==
    /\ crawl.pc = "loop"
    /\ Len(fetch_log) < MaxFetches
    /\ status = 200 => crawl.current_url \in DOMAIN Site
    /\ fetch_log' = Append(fetch_log,
                           [url |-> crawl.current_url, status |-> status,
                            count |-> Len(crawl.products),
                            items |-> IF status = 200
                                      THEN Len(select(Site[crawl.current_url],
                                                      PRODUCT_POD))
                                      ELSE 0])
    /\ crawl' = IF status = 0 \/ raise_for_status(status)
                THEN request_failed(crawl)
                ELSE scrape_page(crawl, Site[crawl.current_url])

\* ------------------------------------------------- direct helper calls
\* no helper has been called yet (the helpers keep no state of their own, so
\* a behaviour makes one call)
NoHelperCall == [fn |-> "none"]
HelperInit == call = NoHelperCall

\* the links a pagination container is built from: visible text and target
LINK_POOL ==
    << [text |-> s_2, href |-> h_q2],
       [text |-> s_3, href |-> h_q3],
       [text |-> <<" ">> \o s_Next \o <<" ">>, href |-> h_q3next],
       [text |-> <<"p", "r", "e", "v">>, href |-> h_q1],
       [text |-> <<"superscript_2">>, href |-> <<"#", "f", "n">>] >>

\* the orders the links appear in: up to MaxLinks different links of the pool
LinkOrders ==
    {order \in UNION {[1..n -> 1..Len(LINK_POOL)] : n \in 1..MaxLinks} :
        \A i, j \in DOMAIN order : i # j => order[i] # order[j]}

\* <div class="pagination"> with the links of the pool in that order </div>
PaginationOf(order) ==
    << El("div", {"pagination"}, NoAttrs, << >>, 0) >>
    \o [i \in 1..Len(order) |->
            Link(LINK_POOL[order[i]].href, LINK_POOL[order[i]].text, 1)]

\* the current URLs: page 2 and page 1 in the query, page 1 in the path, and
\* no page number
NumberedUrls ==
    { BASE_URL \o s_list_q2,
      BASE_URL \o <<"/", "l", "i", "s", "t">> \o h_q1,
      BASE_URL \o s_catalogue \o <<"p", "a", "g", "e", "-", "1">> \o s_html,
      BASE_URL \o <<"/">> }

\* handler._find_numbered_next(soup, current_url) on such a container
FindNumberedNext(order, current_url) ==
    /\ call = NoHelperCall
    /\ call' = [fn |-> "_find_numbered_next", order |-> order,
             current_url |-> current_url,
             result |-> find_numbered_next(PaginationOf(order), current_url)]

\* ------------------------------------------------------ dynamic_scraper.py
\* What script#__NEXT_DATA__ holds, as far as scrape_dynamic reads it: text
\* that is no JSON, a JSON array, an object whose "props" is null, an object
\* without a product_list, one whose product_list is null, and one whose
\* product_list is a list of items, each an object ("dict") or not ("bad").
ItemLists == UNION {[1..n -> {"dict", "bad"}] : n \in 0..MaxItems}
Contents ==
    {[kind |-> k, items |-> << >>] :
        k \in {"invalid", "array", "props_null", "absent", "null"}}
    \cup {[kind |-> "list", items |-> items] : items \in ItemLists}

\* the awaits of scrape_dynamic that the browser can fail, and "none"
FailurePoints ==
    {"none", "new_page", "goto", "wait_for_selector", "inner_text", "close"}

\* product_list[:max_products]
slice_to(product_list, max_products) ==
    IF max_products >= 0
    THEN SubSeq(product_list, 1, Min(max_products, Len(product_list)))
    ELSE SubSeq(product_list, 1, Len(product_list) + max_products)

\* lines 34-45: the products appended until an item that is no object raises
\* AttributeError on p_item.get
RECURSIVE append_products(_, _, _)
append_products(items, k, products) ==
    IF k > Len(items) THEN [raised |-> FALSE, products |-> products]
    ELSE IF items[k] = "bad" THEN [raised |-> TRUE, products |-> products]
    ELSE append_products(items, k + 1, Append(products, [id |-> k]))

\* lines 29-45 on the text of the script: json.loads, the three .get and the
\* loop; raised means an exception reached the except clauses
extract_products(content, max_products) ==
    IF content.kind \in {"invalid", "array", "props_null", "null"}
    THEN [raised |-> TRUE, products |-> << >>]
    ELSE append_products(slice_to(content.items, max_products), 1, << >>)

\* lines 21-55: the try statement; every exception is caught by one of the
\* except clauses (line 51 catches Exception) and finally closes the browser
try_block(content, max_products, fail) ==
    IF fail \in {"goto", "wait_for_selector", "inner_text"}
    THEN << >>
    ELSE extract_products(content, max_products).products

\* DynamicScraper.scrape_dynamic(url, max_products): browser.new_page() is
\* awaited before the try (line 19) and browser.close() in the finally
\* (line 54); an exception of either leaves the coroutine
scrape_dynamic(content, max_products, fail) ==
    IF fail = "new_page" THEN [raised |-> TRUE, products |-> << >>]
    ELSE [raised |-> fail = "close",
          products |-> try_block(content, max_products, fail)]

\* await scraper.scrape_dynamic(url, max_products), the page holding content
\* and the browser failing at fail
ScrapeDynamic(content, max_products, fail) ==
    /\ call = NoHelperCall
    /\ call' = [fn |-> "scrape_dynamic", content |-> content,
                max_products |-> max_products, fail |-> fail,
                result |-> scrape_dynamic(content, max_products, fail)]

\* the phrases of detect_rate_limit
RATE_LIMIT_INDICATORS ==
    { <<"r", "a", "t", "e", " ", "l", "i", "m", "i", "t">>,
      <<"t", "o", "o", " ", "m", "a", "n", "y", " ", "r", "e", "q",
        "u", "e", "s", "t", "s">>,
      <<"s", "l", "o", "w", " ", "d", "o", "w", "n">>,
      <<"e", "x", "c", "e", "e", "d", "e", "d">>,
      <<"t", "h", "r", "o", "t", "t", "l", "e", "d">>,
      <<"t", "e", "m", "p", "o", "r", "a", "r", "i", "l", "y", " ",
        "b", "l", "o", "c", "k", "e", "d">> }

\* detect_rate_limit without line 143: the body alone decides
detect_rate_limit_body_only(response_text, status_code) ==
    \E indicator \in RATE_LIMIT_INDICATORS :
        contains(lower(response_text), indicator)

\* detect_rate_limit(response_text, status_code)
detect_rate_limit(response_text, status_code) ==
    \/ status_code = 429
    \/ \E indicator \in RATE_LIMIT_INDICATORS :
           contains(lower(response_text), indicator)

\* str.upper() ("long_s" stands for the one character U+017F, whose upper
\* case is "S" and which str.lower() leaves as it is)
UpperChar(c) ==
    IF c = "long_s" THEN "S"
    ELSE IF \E i \in 1..Len(Lowers) : Lowers[i] = c
    THEN Uppers[CHOOSE i \in 1..Len(Lowers) : Lowers[i] = c]
    ELSE c
upper(s) == [i \in 1..Len(s) |-> UpperChar(s[i])]

\* the bodies detect_rate_limit is called with, and whether a phrase of the
\* six stands in them in some case
RateLimitBodies ==
    { [text |-> <<"r", "a", "t", "e", " ", "l", "i", "m", "i", "t">>,
       phrase |-> TRUE],
      [text |-> <<"R", "A", "T", "E", " ", "L", "I", "M", "I", "T">>,
       phrase |-> TRUE],
      [text |-> <<"R", "a", "t", "e", " ", "L", "i", "m", "i", "t">>,
       phrase |-> TRUE],
      [text |-> <<"e", "r", "r", "o", "r", ":", " ", "t", "o", "o", " ",
                 "m", "a", "n", "y", " ", "r", "e", "q", "u", "e", "s",
                 "t", "s", " ", "n", "o", "w">>,
       phrase |-> TRUE],
      [text |-> <<"E", "R", "R", "O", "R", ":", " ", "T", "O", "O", " ",
                 "M", "A", "N", "Y", " ", "R", "E", "Q", "U", "E", "S",
                 "T", "S", " ", "N", "O", "W">>,
       phrase |-> TRUE],
      [text |-> <<"E", "r", "r", "o", "r", ":", " ", "T", "o", "o", " ",
                 "M", "a", "n", "y", " ", "R", "e", "q", "u", "e", "s",
                 "t", "s", " ", "N", "o", "w">>,
       phrase |-> TRUE],
      [text |-> <<"<", "p", ">", "s", "l", "o", "w", " ", "d", "o", "w",
                 "n", "<", "/", "p", ">">>,
       phrase |-> TRUE],
      [text |-> <<"<", "P", ">", "S", "L", "O", "W", " ", "D", "O", "W",
                 "N", "<", "/", "P", ">">>,
       phrase |-> TRUE],
      [text |-> <<"<", "P", ">", "S", "l", "o", "w", " ", "D", "o", "w",
                 "n", "<", "/", "P", ">">>,
       phrase |-> TRUE],
      [text |-> <<"e", "x", "c", "e", "e", "d", "e", "d">>,
       phrase |-> TRUE],
      [text |-> <<"E", "X", "C", "E", "E", "D", "E", "D">>,
       phrase |-> TRUE],
      [text |-> <<"E", "x", "c", "e", "e", "d", "e", "d">>,
       phrase |-> TRUE],
      [text |-> <<"e", "r", "r", "o", "r", ":", " ", "t", "h", "r", "o",
                 "t", "t", "l", "e", "d", " ", "n", "o", "w">>,
       phrase |-> TRUE],
      [text |-> <<"E", "R", "R", "O", "R", ":", " ", "T", "H", "R", "O",
                 "T", "T", "L", "E", "D", " ", "N", "O", "W">>,
       phrase |-> TRUE],
      [text |-> <<"E", "r", "r", "o", "r", ":", " ", "T", "h", "r", "o",
                 "t", "t", "l", "e", "d", " ", "N", "o", "w">>,
       phrase |-> TRUE],
      [text |-> <<"<", "p", ">", "t", "e", "m", "p", "o", "r", "a", "r",
                 "i", "l", "y", " ", "b", "l", "o", "c", "k", "e", "d",
                 "<", "/", "p", ">">>,
       phrase |-> TRUE],
      [text |-> <<"<", "P", ">", "T", "E", "M", "P", "O", "R", "A", "R",
                 "I", "L", "Y", " ", "B", "L", "O", "C", "K", "E", "D",
                 "<", "/", "P", ">">>,
       phrase |-> TRUE],
      [text |-> <<"<", "P", ">", "T", "e", "m", "p", "o", "r", "a", "r",
                 "i", "l", "y", " ", "B", "l", "o", "c", "k", "e", "d",
                 "<", "/", "P", ">">>,
       phrase |-> TRUE],
      [text |-> << >>,
       phrase |-> FALSE],
      [text |-> <<"o", "k">>,
       phrase |-> FALSE],
      [text |-> <<"r", "a", "t", "e", " ", " ", "l", "i", "m", "i", "t">>,
       phrase |-> FALSE],
      [text |-> <<"e", "x", "c", "e", "e", "d">>,
       phrase |-> FALSE],
      [text |-> <<"s", "l", "o", "w", "d", "o", "w", "n">>,
       phrase |-> FALSE],
      [text |-> <<"t", "h", "r", "o", "t", "t", "l", "e">>,
       phrase |-> FALSE],
      [text |-> <<"t", "e", "m", "p", "o", "r", "a", "r", "i", "l", "y",
                 " ", "b", "l", "o", "c", "k">>,
       phrase |-> FALSE],
      [text |-> <<"long_s", "l", "o", "w", " ", "d", "o", "w", "n">>,
       phrase |-> FALSE] }

\* the bodies detect_captcha is called with, and whether a keyword of the
\* eight stands in them in some case
CaptchaBodies ==
    { [text |-> <<"c", "a", "p", "t", "c", "h", "a">>,
       phrase |-> TRUE],
      [text |-> <<"C", "A", "P", "T", "C", "H", "A">>,
       phrase |-> TRUE],
      [text |-> <<"C", "a", "p", "t", "c", "h", "a">>,
       phrase |-> TRUE],
      [text |-> <<"e", "r", "r", "o", "r", ":", " ", "r", "e", "c", "a",
                 "p", "t", "c", "h", "a", " ", "n", "o", "w">>,
       phrase |-> TRUE],
      [text |-> <<"E", "R", "R", "O", "R", ":", " ", "R", "E", "C", "A",
                 "P", "T", "C", "H", "A", " ", "N", "O", "W">>,
       phrase |-> TRUE],
      [text |-> <<"E", "r", "r", "o", "r", ":", " ", "R", "e", "c", "a",
                 "p", "t", "c", "h", "a", " ", "N", "o", "w">>,
       phrase |-> TRUE],
      [text |-> <<"<", "p", ">", "h", "c", "a", "p", "t", "c", "h", "a",
                 "<", "/", "p", ">">>,
       phrase |-> TRUE],
      [text |-> <<"<", "P", ">", "H", "C", "A", "P", "T", "C", "H", "A",
                 "<", "/", "P", ">">>,
       phrase |-> TRUE],
      [text |-> <<"<", "P", ">", "H", "c", "a", "p", "t", "c", "h", "a",
                 "<", "/", "P", ">">>,
       phrase |-> TRUE],
      [text |-> <<"c", "l", "o", "u", "d", "f", "l", "a", "r", "e">>,
       phrase |-> TRUE],
      [text |-> <<"C", "L", "O", "U", "D", "F", "L", "A", "R", "E">>,
       phrase |-> TRUE],
      [text |-> <<"C", "l", "o", "u", "d", "f", "l", "a", "r", "e">>,
       phrase |-> TRUE],
      [text |-> <<"e", "r", "r", "o", "r", ":", " ", "p", "l", "e", "a",
                 "s", "e", " ", "v", "e", "r", "i", "f", "y", " ", "n",
                 "o", "w">>,
       phrase |-> TRUE],
      [text |-> <<"E", "R", "R", "O", "R", ":", " ", "P", "L", "E", "A",
                 "S", "E", " ", "V", "E", "R", "I", "F", "Y", " ", "N",
                 "O", "W">>,
       phrase |-> TRUE],
      [text |-> <<"E", "r", "r", "o", "r", ":", " ", "P", "l", "e", "a",
                 "s", "e", " ", "V", "e", "r", "i", "f", "y", " ", "N",
                 "o", "w">>,
       phrase |-> TRUE],
      [text |-> <<"<", "p", ">", "s", "e", "c", "u", "r", "i", "t", "y",
                 " ", "c", "h", "e", "c", "k", "<", "/", "p", ">">>,
       phrase |-> TRUE],
      [text |-> <<"<", "P", ">", "S", "E", "C", "U", "R", "I", "T", "Y",
                 " ", "C", "H", "E", "C", "K", "<", "/", "P", ">">>,
       phrase |-> TRUE],
      [text |-> <<"<", "P", ">", "S", "e", "c", "u", "r", "i", "t", "y",
                 " ", "C", "h", "e", "c", "k", "<", "/", "P", ">">>,
       phrase |-> TRUE],
      [text |-> <<"r", "o", "b", "o", "t", " ", "v", "e", "r", "i", "f",
                 "i", "c", "a", "t", "i", "o", "n">>,
       phrase |-> TRUE],
      [text |-> <<"R", "O", "B", "O", "T", " ", "V", "E", "R", "I", "F",
                 "I", "C", "A", "T", "I", "O", "N">>,
       phrase |-> TRUE],
      [text |-> <<"R", "o", "b", "o", "t", " ", "V", "e", "r", "i", "f",
                 "i", "c", "a", "t", "i", "o", "n">>,
       phrase |-> TRUE],
      [text |-> <<"e", "r", "r", "o", "r", ":", " ", "p", "r", "o", "v",
                 "e", " ", "y", "o", "u", "'", "r", "e", " ", "h", "u",
                 "m", "a", "n", " ", "n", "o", "w">>,
       phrase |-> TRUE],
      [text |-> <<"E", "R", "R", "O", "R", ":", " ", "P", "R", "O", "V",
                 "E", " ", "Y", "O", "U", "'", "R", "E", " ", "H", "U",
                 "M", "A", "N", " ", "N", "O", "W">>,
       phrase |-> TRUE],
      [text |-> <<"E", "r", "r", "o", "r", ":", " ", "P", "r", "o", "v",
                 "e", " ", "Y", "o", "u", "'", "R", "e", " ", "H", "u",
                 "m", "a", "n", " ", "N", "o", "w">>,
       phrase |-> TRUE],
      [text |-> << >>,
       phrase |-> FALSE],
      [text |-> <<"w", "e", "l", "c", "o", "m", "e">>,
       phrase |-> FALSE],
      [text |-> <<"c", "a", "p", "t", "u", "r", "e">>,
       phrase |-> FALSE],
      [text |-> <<"c", "l", "o", "u", "d", " ", "f", "l", "a", "r", "e">>,
       phrase |-> FALSE],
      [text |-> <<"p", "l", "e", "a", "s", "e", " ", " ", "v", "e", "r",
                 "i", "f", "y">>,
       phrase |-> FALSE],
      [text |-> <<"long_s", "e", "c", "u", "r", "i", "t", "y", " ", "c",
                 "h", "e", "c", "k">>,
       phrase |-> FALSE] }

\* the status codes detect_rate_limit is called with
StatusCodes == {200, 403, 429, 503}

\* detect_rate_limit(b.text, status_code)
DetectRateLimit(b, status_code) ==
    /\ call = NoHelperCall
    /\ call' = [fn |-> "detect_rate_limit", response_text |-> b.text,
                phrase |-> b.phrase, status_code |-> status_code,
                result |-> detect_rate_limit(b.text, status_code)]

\* detect_captcha(b.text)
DetectCaptcha(b) ==
    /\ call = NoHelperCall
    /\ call' = [fn |-> "detect_captcha", response_text |-> b.text,
                phrase |-> b.phrase, status_code |-> 0,
                result |-> detect_captcha(b.text)]

\* the selectors of get_all_page_urls, in list order
ALL_PAGE_SELECTORS ==
    << <<Sel("*", "pagination"), Sel("a", "")>>,
       <<Sel("*", "pager"), Sel("a", "")>>,
       <<Sel("*", "page-numbers"), Sel("a", "")>> >>

\* the links get_all_page_urls visits, in the order of its two loops: for
\* each selector the elements soup.select finds
RECURSIVE links_of(_, _, _)
links_of(page, selectors, k) ==
    IF k > Len(selectors) THEN << >>
    ELSE select(page, selectors[k]) \o links_of(page, selectors, k + 1)

\* lines 171-172 without the test, the URL appended whatever the list holds
append_url_unchecked(page_urls, full_url, max_pages) == Append(page_urls, full_url)

\* lines 171-172: if full_url not in page_urls and len(page_urls) < max_pages
append_url(page_urls, full_url, max_pages) ==
    IF (\A i \in DOMAIN page_urls : page_urls[i] # full_url)
       /\ Len(page_urls) < max_pages
    THEN Append(page_urls, full_url)
    ELSE page_urls

\* lines 168-172 for one link
visit_link(page_urls, href, current_url, max_pages) ==
    IF Truthy(href)
    THEN append_url(page_urls, urljoin(current_url, href), max_pages)
    ELSE page_urls

RECURSIVE visit_links(_, _, _, _, _, _)
visit_links(page, links, k, page_urls, current_url, max_pages) ==
    IF k > Len(links) THEN page_urls
    ELSE visit_links(page, links, k + 1,
                     visit_link(page_urls, get(page[links[k]], "href"),
                                current_url, max_pages),
                     current_url, max_pages)

\* PaginationHandler.get_all_page_urls(soup, current_url, max_pages)
get_all_page_urls(page, current_url, max_pages) ==
    visit_links(page, links_of(page, ALL_PAGE_SELECTORS, 1), 1, << >>,
                current_url, max_pages)

\* <div class="pagination pager"><a href="?page=1"/><a href="?page=2"/>
\*   <a href="?page=3"/><a href="?page=2"/></div>
PageTwoClasses ==
    << El("div", {"pagination", "pager"}, NoAttrs, << >>, 0),
       Link(h_q1, s_1, 1), Link(h_q2, s_2, 1), Link(h_q3, s_3, 1),
       Link(h_q2, s_next, 1) >>

\* <div class="pagination"><ul class="pager"><a href="?page=2"/><a/>
\*   <a href=""/></ul></div>
\* <nav class="page-numbers"><a href="page-2.html"/><a href="?page=2"/></nav>
PageNested ==
    << El("div", {"pagination"}, NoAttrs, << >>, 0),
       El("ul", {"pager"}, NoAttrs, << >>, 1),
       Link(h_q2, s_2, 2),
       El("a", {}, NoAttrs, s_3, 2),
       Link(<< >>, s_next, 2),
       El("nav", {"page-numbers"}, NoAttrs, << >>, 0),
       Link(h_page2, s_2, 6), Link(h_q2, s_2, 6) >>

\* the pages get_all_page_urls is called with
SitemapPages == PagerPages \o <<PageTwoClasses, PageNested>>

\* handler.get_all_page_urls(SitemapPages[pg], current_url, max_pages)
\* (call records the arguments, the result and visited_urls at the call)
GetAllPageUrls(pg, current_url, max_pages) ==
    /\ call = NoHelperCall
    /\ call' = [fn |-> "get_all_page_urls", page |-> pg,
                current_url |-> current_url, max_pages |-> max_pages,
                visited_urls |-> visited_urls,
                result |-> get_all_page_urls(SitemapPages[pg], current_url,
                                             max_pages)]
    /\ UNCHANGED pager_vars

\* the URLs _construct_next_page_url is called with: a page number (digits)
\* in the path, with what stands before and after it
PathHeads ==
    { BASE_URL \o s_catalogue \o <<"p", "a", "g", "e", "-">>,
      BASE_URL \o s_catalogue \o <<"p", "a", "g", "e", "_">>,
      BASE_URL \o s_catalogue \o <<"p", "a", "g", "e", "/">>,
      BASE_URL \o <<"/", "p", "a", "g", "e", "-">>,
      BASE_URL \o s_catalogue \o <<"p", "a", "g", "e">>,
      BASE_URL \o s_catalogue \o s_p }
PageDigits == { <<"1">>, <<"3">>, <<"9">>, <<"1", "9">> }
PathTails == { << >>, <<"/">>, s_html, <<"/", "?", "x", "=", "1">>, <<"/", "i", "n", "d", "e", "x", ".", "h", "t", "m", "l">> }

\* handler._construct_next_page_url(before + digits + after)
ConstructFromPath(before, digits, after) ==
    /\ call = NoHelperCall
    /\ call' = [fn |-> "_construct_next_page_url", kind |-> "path",
             before |-> before, digits |-> digits, after |-> after,
             current_url |-> before \o digits \o after,
             result |-> construct_next_page_url(before \o digits \o after)]

\* ... or with a query string made of fields name=value
FIELD_POOL ==
    << [k |-> s_page, v |-> <<"x">>],
       [k |-> s_p, v |-> <<"4">>],
       [k |-> s_offset, v |-> <<"2", "0">>],
       [k |-> <<"a">>, v |-> <<"1">>],
       [k |-> <<"a">>, v |-> <<"2">>],
       [k |-> <<"b">>, v |-> << >>] >>
FieldOrders ==
    {order \in UNION {[1..n -> 1..Len(FIELD_POOL)] : n \in 1..MaxFields} :
        \A i, j \in DOMAIN order : i # j => order[i] # order[j]}

\* name=value&name=value... of the fields, field i with the value values[i]
RECURSIVE QueryFrom(_, _, _)
QueryFrom(order, values, i) ==
    IF i > Len(order) THEN << >>
    ELSE (IF i = 1 THEN << >> ELSE <<"&">>)
         \o FIELD_POOL[order[i]].k \o <<"=">> \o values[i]
         \o QueryFrom(order, values, i + 1)
QueryOf(order) ==
    QueryFrom(order, [i \in DOMAIN order |-> FIELD_POOL[order[i]].v], 1)
ListUrl == BASE_URL \o <<"/", "l", "i", "s", "t", "?">>

\* handler._construct_next_page_url("https://books.toscrape.com/list?" +
\* the query)
ConstructFromQuery(order) ==
    /\ call = NoHelperCall
    /\ call' = [fn |-> "_construct_next_page_url", kind |-> "query",
             order |-> order,
             current_url |-> ListUrl \o QueryOf(order),
             result |-> construct_next_page_url(ListUrl \o QueryOf(order))]

\* ------------------------------------------------------------ anti_bot.py
\* AntiBot.__init__: start_time = time.time() is since_start = 0
AntiBot == [request_count |-> 0, backoff_factor |-> 1 * Scale]

\* AntiBot.reset_backoff
reset_backoff(ab) == [ab EXCEPT !.backoff_factor = 1 * Scale]

\* random.uniform(a, b), a and b times Scale, at the draw u of 0..DrawSteps:
\* a whole number of time units in [a, b]
Draws == 0..DrawSteps
uniform(a, b, u) ==
    LET lo == CeilDiv(a, Scale)
        hi == b \div Scale
    IN  lo + ((hi - lo) * u) \div DrawSteps

\* (mutant) the factor is doubled
escalate_doubling(f) == Min(f * 2, max_backoff * Scale)

\* (mutant) the cap is forgotten
escalate_uncapped(f) == (f * 3) \div 2

\* backoff_factor = min(backoff_factor * 1.5, max_backoff)
escalate(f) == Min((f * 3) \div 2, max_backoff * Scale)

\* (mutant) the delay of a call without increase grows with the factor left
\* by the calls before it
branch_scaled(ab, increase, u) ==
    IF increase
    THEN LET f == escalate(ab.backoff_factor)
         IN  [ab |-> [ab EXCEPT !.backoff_factor = f],
              sleep_time |-> uniform(f * 2, f * 4, u)]
    ELSE [ab |-> reset_backoff(ab),
          sleep_time |-> uniform(ab.backoff_factor, ab.backoff_factor * 3, u)]

\* lines 96-101 of backoff, repeated word for word in async_backoff (118-123):
\* the new state and the branch's sleep_time
branch(ab, increase, u) ==
    IF increase
    THEN LET f == escalate(ab.backoff_factor)
         IN  [ab |-> [ab EXCEPT !.backoff_factor = f],
              sleep_time |-> uniform(f * 2, f * 4, u)]
    ELSE [ab |-> reset_backoff(ab),
          sleep_time |-> uniform(1 * Scale, 3 * Scale, u)]

\* (mutant) the tally is compared one too high
window_hit_late(elapsed, count) == elapsed < WINDOW /\ count > WINDOW_LIMIT + 1

\* the window test of backoff, line 105
window_hit(elapsed, count) == elapsed < WINDOW /\ count > WINDOW_LIMIT

\* backoff(increase) with elapsed = time.time() - start_time and the draw u:
\* the state it leaves, whether it set start_time to time.time(), and the
\* time it sleeps
backoff(ab, elapsed, increase, u) ==
    LET b     == branch(ab, increase, u)
        count == b.ab.request_count + 1
        hit   == window_hit(elapsed, count)
    IN  [ab |-> [b.ab EXCEPT !.request_count = IF hit THEN 0 ELSE count],
         restart |-> hit,
         branch_delay |-> b.sleep_time,
         penalty |-> IF hit THEN WINDOW - elapsed ELSE 0,
         sleep_time |-> b.sleep_time + (IF hit THEN WINDOW - elapsed ELSE 0)]

\* async_backoff(increase): the same branch, and nothing else
async_backoff(ab, elapsed, increase, u) ==
    LET b == branch(ab, increase, u)
    IN  [ab |-> b.ab,
         restart |-> FALSE,
         branch_delay |-> b.sleep_time,
         penalty |-> 0,
         sleep_time |-> b.sleep_time]

NoCall == [kind |-> "none"]

\* the record of one call: its argument and what it computed
CallRecord(kind, increase, r) ==
    [kind |-> kind, increase |-> increase, restart |-> r.restart,
     branch_delay |-> r.branch_delay, sleep_time |-> r.sleep_time]

\* the observer: unarmed, or counting the calls made within WINDOW time units
\* of its start (age is the time since then, up to Horizon)
Unarmed == [armed |-> FALSE, age |-> 0, count |-> 0]
Armed == [armed |-> TRUE, age |-> 0, count |-> 0]
observe(p, sleep_time) ==
    IF ~p.armed THEN p
    ELSE [armed |-> TRUE,
          age |-> Sat(p.age + sleep_time),
          count |-> IF p.age <= WINDOW THEN p.count + 1 ELSE p.count]

ThrottleInit ==
    /\ since_start = 0
    /\ anti_bot = AntiBot
    /\ last = NoCall
    /\ probe = Unarmed

\* the clock after a call that sleeps sleep_time
after_call(r) ==
    IF r.restart THEN Sat(r.sleep_time) ELSE Sat(since_start + r.sleep_time)

\* a request has just been made; backoff(increase) runs and sleeps; the
\* observer p sees the call
BackoffSeen(p, increase, u) ==
    /\ anti_bot.request_count < MaxCount
    /\ LET r == backoff(anti_bot, since_start, increase, u)
       IN  /\ anti_bot' = r.ab
           /\ last' = CallRecord("backoff", increase, r)
           /\ since_start' = after_call(r)
           /\ probe' = observe(p, r.sleep_time)

Backoff(increase, u) == BackoffSeen(probe, increase, u)

\* the same call, the observer starting its interval with it
Watch(increase, u) == ~probe.armed /\ BackoffSeen(Armed, increase, u)

\* the cooperative variant, on the same global state
AsyncBackoff(increase, u) ==
    /\ LET r == async_backoff(anti_bot, since_start, increase, u)
       IN  /\ anti_bot' = r.ab
           /\ last' = CallRecord("async_backoff", increase, r)
           /\ since_start' = after_call(r)
           /\ probe' = observe(probe, r.sleep_time)

\* one time unit passes outside backoff: the fetch, or the caller's own work
Elapse ==
    /\ since_start < Horizon
    /\ since_start' = Sat(since_start + 1)
    /\ probe' = IF probe.armed THEN [probe EXCEPT !.age = Sat(@ + 1)] ELSE probe
    /\ UNCHANGED <<anti_bot, last>>

\* two crawl runs in one process: both import the one module-level _anti_bot
Runs == {1, 2}

\* what a run can see of the throttle state between its calls
ThrottleView(ab) ==
    [backoff_factor |-> ab.backoff_factor, request_count |-> ab.request_count]

\* a run that has not called yet expects the state of a fresh AntiBot
FreshRun ==
    [left |-> ThrottleView(AntiBot), expected |-> ThrottleView(AntiBot),
     found |-> ThrottleView(AntiBot), calls |-> 0]

RunInit == runs = [c \in Runs |-> FreshRun]

\* backoff(increase) called by the run c: global _anti_bot is the one object,
\* whoever calls. The run notes the state it finds and the state it leaves.
RunBackoff(c, increase, u) ==
    /\ runs[c].calls < MaxCalls
    /\ BackoffSeen(probe, increase, u)
    /\ runs' = [runs EXCEPT ![c] =
                  [left |-> ThrottleView(anti_bot'),
                   expected |-> runs[c].left,
                   found |-> ThrottleView(anti_bot),
                   calls |-> runs[c].calls + 1]]

vars == <<since_start, anti_bot, last, probe, visited_urls, pager_last,
          crawl, fetch_log, call,
          session_manager, returned_sessions, last_get, threads,
          runs>>

Init ==
    /\ ThrottleInit /\ PagerInit /\ CrawlInit /\ HelperInit /\ SessionInit
    /\ RunInit

ThrottleNext ==
    /\ \/ \E increase \in BOOLEAN, u \in Draws : Backoff(increase, u)
       \/ \E increase \in BOOLEAN, u \in Draws : AsyncBackoff(increase, u)
       \/ Elapse
    /\ UNCHANGED <<pager_vars, crawl_vars, helper_vars, session_vars, run_vars>>

ThrottleSpec == Init /\ [][ThrottleNext]_vars

\* every request is followed at once by backoff(), which sleeps
WindowNext ==
    /\ \/ \E increase \in BOOLEAN, u \in Draws : Backoff(increase, u)
       \/ \E increase \in BOOLEAN, u \in Draws : Watch(increase, u)
    /\ UNCHANGED <<pager_vars, crawl_vars, helper_vars, session_vars, run_vars>>

WindowSpec == Init /\ [][WindowNext]_vars

\* two runs calling backoff() in any order, one call at a time
SharedThrottleNext ==
    /\ \E c \in Runs, increase \in BOOLEAN, u \in Draws : RunBackoff(c, increase, u)
    /\ UNCHANGED <<pager_vars, crawl_vars, helper_vars, session_vars>>

SharedThrottleSpec == Init /\ [][SharedThrottleNext]_vars

PagerNext ==
    /\ \E pg \in 1..Len(PagerPages), current_url \in PagerUrls :
           GetNextPage(pg, current_url)
    /\ UNCHANGED <<throttle_vars, crawl_vars, helper_vars, session_vars, run_vars>>

PagerSpec == Init /\ [][PagerNext]_vars

CrawlNext ==
    /\ \/ \E url \in StartUrls, max_products \in 0..MaxProducts :
              ScrapeStatic(url, max_products)
       \/ \E n \in ConfiguredMax : RunBoth(n)
       \/ \E status \in Statuses : Fetch(status)
    /\ UNCHANGED <<throttle_vars, pager_vars, helper_vars, session_vars, run_vars>>

CrawlSpec == Init /\ [][CrawlNext]_vars

\* a handler that has walked at most one page is asked for all the page URLs
AllPagesNext ==
    /\ \/ /\ call = NoHelperCall
          /\ visited_urls = {}
          /\ \E pg \in 1..Len(PagerPages), current_url \in PagerUrls :
                 GetNextPage(pg, current_url)
          /\ UNCHANGED call
       \/ \E pg \in 1..Len(SitemapPages), current_url \in PagerUrls,
             max_pages \in 0..MaxPages :
              GetAllPageUrls(pg, current_url, max_pages)
    /\ UNCHANGED <<throttle_vars, crawl_vars, session_vars, run_vars>>

AllPagesSpec == Init /\ [][AllPagesNext]_vars

DetectNext ==
    /\ \/ \E b \in RateLimitBodies, status_code \in StatusCodes :
              DetectRateLimit(b, status_code)
       \/ \E b \in CaptchaBodies : DetectCaptcha(b)
    /\ UNCHANGED <<throttle_vars, pager_vars, crawl_vars, session_vars, run_vars>>

DetectSpec == Init /\ [][DetectNext]_vars

DynamicNext ==
    /\ \E content \in Contents, max_products \in 0..MaxProducts,
          fail \in FailurePoints :
           ScrapeDynamic(content, max_products, fail)
    /\ UNCHANGED <<throttle_vars, pager_vars, crawl_vars, session_vars, run_vars>>

DynamicSpec == Init /\ [][DynamicNext]_vars

NumberedNext ==
    /\ \E order \in LinkOrders, current_url \in NumberedUrls :
           FindNumberedNext(order, current_url)
    /\ UNCHANGED <<throttle_vars, pager_vars, crawl_vars, session_vars, run_vars>>

NumberedSpec == Init /\ [][NumberedNext]_vars

ConstructNext ==
    /\ \/ \E before \in PathHeads, digits \in PageDigits, after \in PathTails :
              ConstructFromPath(before, digits, after)
       \/ \E order \in FieldOrders : ConstructFromQuery(order)
    /\ UNCHANGED <<throttle_vars, pager_vars, crawl_vars, session_vars, run_vars>>

ConstructSpec == Init /\ [][ConstructNext]_vars

SessionNext ==
    /\ \/ \E n \in 1..MaxSessions : \E draws \in [1..n -> HeaderDraws] :
              NewSessionManager(n, draws)
       \/ \E draw \in HeaderDraws : GetSession(draw)
    /\ UNCHANGED <<throttle_vars, pager_vars, crawl_vars, helper_vars, run_vars>>

SessionSpec == Init /\ [][SessionNext]_vars

SharedPoolNext ==
    /\ \/ \E n \in 2..MaxSessions : \E draws \in [1..n -> HeaderDraws] :
              NewSessionManager(n, draws)
       \/ \E t \in Threads : Pick(t)
       \/ \E t \in Threads : Load(t)
       \/ \E t \in Threads : Store(t)
       \/ \E t \in Threads, draw \in HeaderDraws : Refresh(t, draw)
    /\ UNCHANGED <<throttle_vars, pager_vars, crawl_vars, helper_vars, run_vars>>

SharedPoolSpec == Init /\ [][SharedPoolNext]_vars

\* ------------------------------------------------------------------ claims
\* a step of backoff(): it alone changes request_count, and always does
BackoffStep == anti_bot'.request_count # anti_bot.request_count

\* C1: over every sequence of backoff calls from a fresh AntiBot the factor
\* stays within [1.0, max_backoff]; a call with increase=True never lowers
\* it, and a call with increase=False leaves it at exactly 1.0.
C1_FactorWithinBounds ==
    /\ [](/\ anti_bot.backoff_factor >= 1 * Scale
          /\ anti_bot.backoff_factor <= max_backoff * Scale)
    /\ [][BackoffStep =>
            IF last'.increase
            THEN anti_bot'.backoff_factor >= anti_bot.backoff_factor
            ELSE anti_bot'.backoff_factor = 1 * Scale]_vars

\* the cap is reached by a failure, the factor having been lower before
C1_Witness ==
    /\ last.kind = "backoff" /\ last.increase
    /\ anti_bot.backoff_factor = max_backoff * Scale

\* C4: no interval of 60 time units holds more than 11 requests, each being
\* followed by backoff() and its sleep.
C4_Ceiling == probe.count <= WINDOW_LIMIT + 1

\* C5: the 11th backoff() call made within 60 time units of window_start
\* sleeps its branch delay plus 60 - elapsed, and leaves request_count 0 and
\* window_start at the time of the call; the 10 calls before it sleep their
\* branch delay alone.
C5_EleventhCallPenalty ==
    [][BackoffStep =>
        /\ (anti_bot.request_count = WINDOW_LIMIT /\ since_start < WINDOW) =>
              /\ last'.sleep_time = last'.branch_delay + (WINDOW - since_start)
              /\ anti_bot'.request_count = 0
              /\ last'.restart
              /\ since_start' = Sat(last'.sleep_time)
        /\ anti_bot.request_count < WINDOW_LIMIT =>
              /\ last'.sleep_time = last'.branch_delay
              /\ anti_bot'.request_count = anti_bot.request_count + 1
              /\ ~last'.restart
              /\ since_start' = Sat(since_start + last'.sleep_time)]_vars

\* the 11th call has just been made inside the window, after some waiting
C5_Witness ==
    /\ last.kind = "backoff" /\ last.restart
    /\ last.sleep_time > last.branch_delay + 1
    /\ anti_bot.request_count = 0

\* C6: from the same ThrottleState, signal and draw, backoff() and
\* async_backoff() compute the same delay and leave the same state.
C6_VariantsAgree ==
    \A increase \in BOOLEAN, u \in Draws :
        LET b == backoff(anti_bot, since_start, increase, u)
            a == async_backoff(anti_bot, since_start, increase, u)
        IN  /\ a.sleep_time = b.sleep_time
            /\ a.ab = b.ab
            /\ a.restart = b.restart

\* C2: a URL get_next_page returns was not in visited_urls when the call was
\* made and is in it when the call returns, so no earlier call returned it;
\* and a call with the same page as the call before it returns a different
\* URL or None.
C2_NeverReturnsVisited ==
    /\ [](pager_last.url # None =>
            /\ pager_last.url \notin pager_last.before
            /\ pager_last.url \in visited_urls
            /\ pager_last.url \notin pager_last.returned)
    /\ [][(pager_last.page # 0 /\ pager_last'.page = pager_last.page) =>
            (pager_last'.url = None \/ pager_last'.url # pager_last.url)]_vars
\* a call whose next-button candidate was already visited returned another URL
C2_Witness ==
    /\ pager_last.page # 0
    /\ pager_last.url # None
    /\ Truthy(find_next_button(PagerPages[pager_last.page]))
    /\ urljoin(pager_last.current_url, find_next_button(PagerPages[pager_last.page]))
           \in pager_last.before

\* the candidates of the last call in the order next-button, numbered-link,
\* load-more, URL-construction, before they are resolved
LastCandidates ==
    << find_next_button(PagerPages[pager_last.page]),
       find_numbered_next(PagerPages[pager_last.page], pager_last.current_url),
       find_load_more(PagerPages[pager_last.page]),
       construct_next_page_url(pager_last.current_url) >>
\* strategy i of the last call produced a candidate that was not yet visited
LastFresh(i) ==
    /\ Truthy(LastCandidates[i])
    /\ urljoin(pager_last.current_url, LastCandidates[i]) \notin pager_last.before

\* C3: get_next_page returns the resolved candidate of the first strategy, in
\* the order next-button, numbered-link, load-more, URL-construction, whose
\* candidate is not in visited_urls, and None only when no strategy has one.
C3_FirstFreshStrategy ==
    pager_last.page # 0 =>
        IF \E i \in 1..4 : LastFresh(i)
        THEN LET k == CHOOSE i \in 1..4 :
                          LastFresh(i) /\ \A j \in 1..(i - 1) : ~LastFresh(j)
             IN  pager_last.url = urljoin(pager_last.current_url, LastCandidates[k])
        ELSE pager_last.url = None
\* the load-more URL was returned because the next-button and numbered-link
\* candidates were both already visited
C3_Witness ==
    /\ pager_last.page # 0
    /\ Truthy(LastCandidates[1]) /\ ~LastFresh(1)
    /\ Truthy(LastCandidates[2]) /\ ~LastFresh(2)
    /\ LastFresh(3)
    /\ pager_last.url = urljoin(pager_last.current_url, LastCandidates[3])

\* the last session.get call of the crawl, and whether a call failed
LastFetch == fetch_log[Len(fetch_log)]
Failed(f) == f.status = 0 \/ raise_for_status(f.status)
\* the number of records on the pages fetched so far
RECURSIVE Offered(_)
Offered(log) == IF log = << >> THEN 0 ELSE Head(log).items + Offered(Tail(log))

\* C7: at every point of a crawl the number of records is at most
\* max_products, for every max_products >= 0.
C7_AtMostMax ==
    crawl.pc # "idle" => Len(crawl.products) <= crawl.max_products

\* C8: no fetch is issued once the record count has reached max_products, and
\* a finished crawl whose pages offered at least max_products records
\* returns exactly max_products records.
C8_StopsAtMax ==
    /\ \A i \in DOMAIN fetch_log : fetch_log[i].count < crawl.max_products
    /\ (crawl.pc = "done" /\ Offered(fetch_log) >= crawl.max_products)
           => Len(crawl.products) = crawl.max_products

\* C9: after a fetch answered with status 429 the crawl is still running and
\* its next fetch is for the same URL.
C9_RateLimitRetried ==
    (fetch_log # << >> /\ LastFetch.status = 429) =>
        (crawl.pc = "loop" /\ crawl.current_url = LastFetch.url)

\* the retry budget the scraper is expected to be constructed with
retry_count == 3

\* C10: a crawl that ended on a failed fetch made retry_count attempts on
\* that URL.
C10_RetryBudgetExhausted ==
    (crawl.pc = "done" /\ fetch_log # << >> /\ Failed(LastFetch)) =>
        Cardinality({i \in DOMAIN fetch_log :
                        fetch_log[i].url = LastFetch.url /\ Failed(fetch_log[i])})
            = retry_count

\* the i-th fetch of the crawl received a page that detect_captcha classifies
\* as a bot challenge
ChallengeFetched(i) ==
    /\ fetch_log[i].status = 200
    /\ detect_captcha(body(Site[fetch_log[i].url]))

\* C11: a fetched page that detect_captcha classifies as a bot challenge ends
\* the crawl at once: it is the last fetch, no record is taken from it and
\* the crawl does not go on to a next URL.
C11_ChallengeEndsCrawl ==
    \A i \in DOMAIN fetch_log :
        ChallengeFetched(i) =>
            /\ i = Len(fetch_log)
            /\ crawl.pc = "done"
            /\ Len(crawl.products) = fetch_log[i].count

\* the records of the pages received by the fetches of log, in order, as the
\* extraction loop collects them under the maximum max_products
RECURSIVE Collected(_, _)
Collected(log, max_products) ==
    IF log = << >> THEN << >>
    ELSE LET f == log[Len(log)]
             before == Collected(SubSeq(log, 1, Len(log) - 1), max_products)
         IN  IF f.status # 200 THEN before
             ELSE extract_items(Site[f.url], select(Site[f.url], PRODUCT_POD),
                                before, max_products, f.url).products

\* C12: every crawl that ends returns the records accumulated so far: it never
\* ends by raising, and a crawl ended by a failed fetch returns exactly the
\* records of the pages fetched before it, in order.
C12_PartialResultsReturned ==
    /\ crawl.pc # "raised"
    /\ (crawl.pc = "done" /\ fetch_log # << >> /\ Failed(LastFetch)) =>
           /\ Len(crawl.products) = LastFetch.count
           /\ crawl.products = Collected(fetch_log, crawl.max_products)

\* C13: no exception escapes scrape_static: whatever the start URL and the
\* pages fetched, the call is running or has returned its list, and a page
\* with a malformed item is followed by pagination resolution.
C13_NothingIsFatal ==
    /\ crawl.pc \in {"idle", "loop", "done"}
    /\ \A i \in DOMAIN fetch_log :
           (fetch_log[i].status = 200 /\ fetch_log[i].url = UrlBroken) =>
               (crawl.pc = "done" \/ crawl.current_url # UrlBroken)

\* the page number of the current URL of the last _find_numbered_next call
\* (in a 1-tuple, or None), and the links of the call with a given text
CallPage == extract_page_number(call.current_url)
LinksWithNumber(n) ==
    {i \in DOMAIN call.order : strip(LINK_POOL[call.order[i]].text) = str(n)}
NextWordLinks ==
    {i \in DOMAIN call.order :
        lower(strip(LINK_POOL[call.order[i]].text)) \in NEXT_WORDS}

\* C14: when the current URL has page number N and the container has a link
\* with text N+1, _find_numbered_next returns that link's target, wherever
\* the link stands; a next-word link is returned only when there is no link
\* with text N+1.
C14_NumberBeforeNextWord ==
    (call.fn = "_find_numbered_next" /\ CallPage # None) =>
        /\ LinksWithNumber(CallPage[1] + 1) # {} =>
               \E i \in LinksWithNumber(CallPage[1] + 1) :
                   call.result = LINK_POOL[call.order[i]].href
        /\ (\E i \in NextWordLinks : call.result = LINK_POOL[call.order[i]].href)
               => LinksWithNumber(CallPage[1] + 1) = {}

\* the path of the current URL of the last call matches one of the path
\* patterns of _construct_next_page_url
PathPatternMatches ==
    \E i \in DOMAIN PATH_PATTERNS :
        search(PATH_PATTERNS[i].pattern, urlparse(call.current_url).path).ok

\* C15: for a URL whose path matches a page pattern, _construct_next_page_url
\* returns the URL with the page number N replaced by N+1 and every other
\* character unchanged.
C15_OnlyTheNumberChanges ==
    (call.fn = "_construct_next_page_url" /\ call.kind = "path"
        /\ PathPatternMatches) =>
        call.result = call.before \o str(int(call.digits) + 1) \o call.after

\* the fields of the last call's query that carry the parameter name with an
\* integer value
IntFields(name) ==
    {i \in DOMAIN call.order :
        FIELD_POOL[call.order[i]].k = name /\ is_int(FIELD_POOL[call.order[i]].v)}
\* the query of the last call with the value of field f incremented
Incremented(f) ==
    QueryFrom(call.order,
              [i \in DOMAIN call.order |->
                  IF i = f THEN str_of(int_of(FIELD_POOL[call.order[i]].v) + 1)
                  ELSE FIELD_POOL[call.order[i]].v],
              1)

\* C16: when no path pattern matches, _construct_next_page_url increments the
\* first parameter of page, p, pagenum, offset, start that has an integer
\* value and leaves every other parameter as it was; it returns None when no
\* listed parameter has an integer value.
C16_QueryParameterIncremented ==
    (call.fn = "_construct_next_page_url" /\ call.kind = "query") =>
        LET n == First(Len(QUERY_PARAMS), LAMBDA k : IntFields(QUERY_PARAMS[k]) # {})
        IN  IF n = 0 THEN call.result = None
            ELSE \E f \in IntFields(QUERY_PARAMS[n]) :
                     call.result = ListUrl \o Incremented(f)

\* C17: a SessionManager constructed with N sessions always holds N sessions
\* and 0 <= current_session < N, and its k-th get_session call (k = 0, 1,
\* ...) returns session number k mod N.
C17_RoundRobin ==
    session_manager # NoManager =>
        /\ Len(session_manager.sessions) = session_manager.max_sessions
        /\ session_manager.current_session >= 0
        /\ session_manager.current_session < session_manager.max_sessions
        /\ \A k \in DOMAIN returned_sessions :
               returned_sessions[k] = (k - 1) % session_manager.max_sessions
\* the rotation has wrapped around a pool of more than one session
C17_Witness ==
    /\ session_manager.max_sessions > 1
    /\ Len(returned_sessions) > session_manager.max_sessions
    /\ returned_sessions[Len(returned_sessions)] = 0
    /\ session_manager.current_session = 1

\* C18: two concurrent get_session calls on a pool of N >= 2 sessions return
\* two different sessions and advance the index by exactly 2 modulo N,
\* whatever the interleaving.
C18_RotationIsAtomic ==
    (\A t \in Threads : threads[t].pc = "done") =>
        /\ threads[1].session # threads[2].session
        /\ session_manager.current_session = 2 % session_manager.max_sessions

\* C19: after get_session the headers of the session returned are exactly
\* those of the get_headers() draw of that call.
C19_HeadersAreTheFreshDraw ==
    last_get # NoGet =>
        session_manager.sessions[last_get.session + 1] = get_headers(last_get.draw)

\* C20: the throttle state is per crawl run: every backoff() call of a run
\* finds the backoff_factor and the request_count that the run's own
\* previous call left (a fresh AntiBot before its first call).
C20_ThrottleStateIsPerRun ==
    \A c \in Runs : runs[c].found = runs[c].expected

\* an absolute URL: it has a scheme and a host
IsAbsolute(url) == urlparse(url).scheme # << >> /\ urlparse(url).netloc # << >>

\* C21: get_all_page_urls returns at most max_pages URLs, all absolute, each
\* of them once, and leaves visited_urls as it was at the call.
C21_AllPageUrls ==
    call.fn = "get_all_page_urls" =>
        /\ Len(call.result) <= call.max_pages
        /\ \A i \in DOMAIN call.result : IsAbsolute(call.result[i])
        /\ \A i, j \in DOMAIN call.result :
               i # j => call.result[i] # call.result[j]
        /\ visited_urls = call.visited_urls

\* two selectors match the same links and a href is repeated, on a handler
\* that has visited URLs, and the cap cuts the list
C21_Witness ==
    /\ call.fn = "get_all_page_urls"
    /\ call.page = Len(PagerPages) + 1
    /\ call.max_pages = MaxPages
    /\ Len(call.result) = MaxPages
    /\ visited_urls # {}

\* C22: detect_rate_limit is true exactly when the status is 429 or one of
\* the six phrases stands in the body in some case.
C22_RateLimitSignals ==
    call.fn = "detect_rate_limit" =>
        (call.result <=> (call.status_code = 429 \/ call.phrase))

\* each signal on its own: a 429 whose body has no phrase, a phrase under
\* another status, and neither
C22_Witness ==
    /\ call.fn = "detect_rate_limit"
    /\ call.status_code = 503
    /\ call.phrase
    /\ call.result
    /\ call.response_text # lower(call.response_text)

\* C23: detect_captcha and detect_rate_limit are pure and case-insensitive:
\* detect_captcha is true exactly when a keyword stands in the lower-cased
\* body, neither result changes when the body's letters change case, and
\* the throttle state, the session pool and visited_urls are left alone.
C23_PureAndCaseInsensitive ==
    /\ call.fn = "detect_captcha" =>
           /\ call.result <=> (\E indicator \in CAPTCHA_INDICATORS :
                                   contains(lower(call.response_text), indicator))
           /\ call.result <=> detect_captcha(upper(call.response_text))
           /\ call.result <=> detect_captcha(lower(call.response_text))
    /\ call.fn = "detect_rate_limit" =>
           /\ call.result <=> detect_rate_limit(upper(call.response_text),
                                                call.status_code)
           /\ call.result <=> detect_rate_limit(lower(call.response_text),
                                                call.status_code)
    /\ call.fn \in {"detect_captcha", "detect_rate_limit"} =>
           /\ anti_bot = AntiBot
           /\ session_manager = NoManager
           /\ visited_urls = {}

\* C24 as stated: a call without increase, of backoff() or async_backoff(),
\* sleeps at least 1 and at most 4 time units whatever the calls before it
\* left.
C24_NormalDelayWithinFour ==
    (last.kind # "none" /\ ~last.increase) =>
        (last.sleep_time >= 1 /\ last.sleep_time <= 4)

\* C24, amended: a call without increase draws a delay of 1 to 3 time units
\* whatever the calls before it left; async_backoff() sleeps that, and so
\* does backoff() unless the call is the one past the window's tally, which
\* sleeps the rest of the window on top of it.
C24_NormalDelayButForThePenalty ==
    (last.kind # "none" /\ ~last.increase) =>
        /\ last.branch_delay >= 1 /\ last.branch_delay <= 3
        /\ anti_bot.backoff_factor = 1 * Scale
        /\ last.kind = "async_backoff" => last.sleep_time = last.branch_delay
        /\ ~last.restart => last.sleep_time = last.branch_delay
        /\ last.restart =>
               /\ last.kind = "backoff"
               /\ last.sleep_time > last.branch_delay
               /\ last.sleep_time <= last.branch_delay + WINDOW

\* a call without increase, the 11th of its window: it sleeps more than 4
C24_Witness ==
    /\ last.kind = "backoff" /\ ~last.increase
    /\ last.restart
    /\ last.sleep_time > 4

\* the page of the i-th fetch was received
Received(i) == fetch_log[i].status = 200

\* what the module-level get_next_page returns for the page of the i-th fetch
ResolvedNext(i) == get_next_page_books(Site[fetch_log[i].url], fetch_log[i].url)

\* C25: get_next_page returns the absolute URL of the page's li.next a link,
\* or None; when it returns None for a received page the crawl ends there,
\* normally.
C25_NoNextEndsCrawl ==
    \A i \in DOMAIN fetch_log :
        Received(i) =>
            /\ ResolvedNext(i) # None => IsAbsolute(ResolvedNext(i))
            /\ ResolvedNext(i) = None =>
                   /\ i = Len(fetch_log)
                   /\ crawl.pc = "done"

\* the URL the crawl goes to after the i-th fetch
FetchedNext(i) ==
    IF i < Len(fetch_log) THEN fetch_log[i + 1].url ELSE crawl.current_url

\* the href of the li.next > a link on the page of the i-th fetch, or None
NextHref(i) ==
    IF select_one(Site[fetch_log[i].url], NEXT_LINK) = 0 THEN None
    ELSE get(Site[fetch_log[i].url][select_one(Site[fetch_log[i].url], NEXT_LINK)],
             "href")

\* the i-th fetch received a page without items that links to a next page
EmptyWithNext(i) ==
    /\ Received(i)
    /\ fetch_log[i].items = 0
    /\ Truthy(NextHref(i))

\* C27: after a received page without items that links to a next page the
\* crawl goes on with that page, and what that page yields is collected.
C27_EmptyPageIsNotTheEnd ==
    \A i \in DOMAIN fetch_log :
        EmptyWithNext(i) =>
            /\ FetchedNext(i) = urljoin(fetch_log[i].url, NextHref(i))
            /\ i = Len(fetch_log) => crawl.pc = "loop"
            /\ (i < Len(fetch_log) /\ Received(i + 1) /\ fetch_log[i + 1].items > 0)
                   => Len(crawl.products) > fetch_log[i].count

\* the page after an empty one has been fetched and its books collected
C27_Witness ==
    /\ Len(fetch_log) = 2
    /\ EmptyWithNext(1)
    /\ Received(2)
    /\ Len(crawl.products) > 0
    /\ crawl.pc = "done"

\* C28: a crawl fetches no URL twice (and so ends, the site being finite).
C28_NoUrlFetchedTwice ==
    \A i, j \in DOMAIN fetch_log :
        i # j => fetch_log[i].url # fetch_log[j].url

\* C29: visited_urls only grows: a get_next_page call that returns a URL adds
\* that URL and nothing else, and a call that returns None leaves the set as
\* it was.
C29_VisitedOnlyGrows ==
    /\ [](pager_last.page # 0 =>
            /\ pager_last.before \subseteq visited_urls
            /\ pager_last.url # None =>
                   visited_urls = pager_last.before \cup {pager_last.url}
            /\ pager_last.url = None => visited_urls = pager_last.before)
    /\ [][visited_urls \subseteq visited_urls']_vars

\* a URL was added to a set that held two already
C29_Witness ==
    /\ pager_last.url # None
    /\ Cardinality(pager_last.before) >= 2
    /\ Cardinality(visited_urls) = Cardinality(pager_last.before) + 1

\* 3^k and 2^k
RECURSIVE Power(_, _)
Power(b, k) == IF k = 0 THEN 1 ELSE b * Power(b, k - 1)

\* min(1.5^k, 30), times Scale
FactorAfter(k) == Min((Power(3, k) * Scale) \div Power(2, k), max_backoff * Scale)

\* the number of failures in a row after which the factor is first at the cap
StreakToCap ==
    CHOOSE k \in 1..MaxCount :
        /\ FactorAfter(k) = max_backoff * Scale
        /\ FactorAfter(k - 1) < max_backoff * Scale

\* C30: k failures in a row after a reset leave backoff_factor at
\* min(1.5^k, 30), which is 30 from the 9th on, and each of them sleeps a
\* delay within [2f, 4f] for the factor f it leaves: 3 to 120 time units.
C30_FactorAfterFailures ==
    /\ StreakToCap = 9
    /\ [](\E k \in 0..StreakToCap : anti_bot.backoff_factor = FactorAfter(k))
    /\ [][BackoffStep =>
            IF last'.increase
            THEN /\ \E k \in 0..StreakToCap :
                        /\ anti_bot.backoff_factor = FactorAfter(k)
                        /\ anti_bot'.backoff_factor = FactorAfter(k + 1)
                 /\ last'.branch_delay * Scale >= 2 * anti_bot'.backoff_factor
                 /\ last'.branch_delay * Scale <= 4 * anti_bot'.backoff_factor
                 /\ last'.branch_delay >= 3 /\ last'.branch_delay <= 120
            ELSE anti_bot'.backoff_factor = FactorAfter(0)]_vars

\* the 8th failure in a row: the factor is 1.5^8, still below the cap
C30_Witness ==
    /\ last.kind = "backoff" /\ last.increase
    /\ anti_bot.backoff_factor = FactorAfter(StreakToCap - 1)
    /\ last.branch_delay * Scale >= 2 * anti_bot.backoff_factor

\* C26: scrape_dynamic returns at most max_products records, and whatever
\* fails once the browser is launched it returns the records it has instead
\* of raising.
C26_DynamicReturnsAList ==
    call.fn = "scrape_dynamic" =>
        /\ ~call.result.raised
        /\ Len(call.result.products) <= call.max_products

\* C31: request_count never exceeds 11: it is set back to 0 before it can
\* grow further, whenever the backoff() calls are made.
C31_TallyBounded == anti_bot.request_count <= WINDOW_LIMIT + 1

\* the text of the i-th link of the call, stripped
LinkText(i) == strip(LINK_POOL[call.order[i]].text)

\* the i-th link is one the numbered-link strategy is to return: its text is
\* the number after the current page's, or a next word
Eligible(i) ==
    IF decimal(LinkText(i))
    THEN /\ CallPage # None
         /\ int(LinkText(i)) = CallPage[1] + 1
    ELSE lower(LinkText(i)) \in NEXT_WORDS

\* C32: the numbered-link strategy passes over every link that is neither the
\* number after the current page's nor a next word and goes on with the links
\* after it, so it returns the first link that is one of the two, and None
\* when there is none.
C32_OtherLinksAreSkipped ==
    call.fn = "_find_numbered_next" =>
        IF \E i \in DOMAIN call.order : Eligible(i)
        THEN \E i \in DOMAIN call.order :
                 /\ Eligible(i)
                 /\ \A j \in 1..(i - 1) : ~Eligible(j)
                 /\ call.result # None
                 /\ LINK_POOL[call.order[i]].href = call.result
        ELSE call.result = None

\* C33: every iteration of the crawl ends with its delay before the next
\* fetch is made, so n fetches are separated by n - 1 delays, one between
\* each two; and the iteration that reaches max_products takes no delay.
C33_DelayBetweenFetches ==
    /\ crawl.pc = "loop" => crawl.slept = Len(fetch_log)
    /\ crawl.pc \in {"done", "raised"} =>
           /\ crawl.slept <= Len(fetch_log)
           /\ crawl.slept >= Len(fetch_log) - 1
    /\ (crawl.pc = "done" /\ limit_reached(crawl.products, crawl.max_products))
           => crawl.slept = Len(fetch_log) - 1

\* the second fetch reached the maximum: one delay, between the two fetches
C33_Witness ==
    /\ crawl.pc = "done"
    /\ limit_reached(crawl.products, crawl.max_products)
    /\ Len(fetch_log) = 2
    /\ crawl.slept = 1
====
